---- MODULE Spec2Model ----
(***************************************************************************)
(* Model of the map feature-detection pipeline of dungeon-lab              *)
(* (ai-workflows/src/flows/feature_detection.py and the helpers it uses    *)
(* in utils/callbacks.py and utils/artifact_helpers.py).                   *)
(*                                                                         *)
(* The specifications of the module:                                       *)
(*   Spec            one run of detect_features_flow, step by step         *)
(*   SpecTerminating Spec with every step that is enabled taken            *)
(*   SpecResize      resize_image applied to a bounded set of image sizes  *)
(*   SpecArtifacts   two flow runs creating artifacts under the same key   *)
(*   SpecRoundTrip   a point rescaled to the resized image and back        *)
(*   SpecContours    detect_contours applied to rectangular contours       *)
(*   SpecExtractors  wall and portal detection in any interleaving         *)
(*   SpecImageEdit   one call of outline_impassable_areas or               *)
(*                   highlight_portals, statement by statement             *)
(*                                                                         *)
(* Numbers that are floats in the program are kept exact: a ratio a/b is   *)
(* the record [n |-> a, d |-> b] and ratios are compared by cross          *)
(* multiplication.                                                         *)
(***************************************************************************)
EXTENDS Integers, Naturals, Sequences, FiniteSets, TLC

VARIABLES
    pc,               \* position of the flow run in detect_features_flow
    image_url,        \* argument of detect_features_flow
    fetched_url,      \* the URL the run gave to fetch_image, "" before
    nested_count,     \* failed attempts of the fetch_image run nested in the
                      \* current attempt of the task at pc
    has_label,        \* does flow_run.labels carry "userId"
    source_image,     \* the image served at the URL the flow fetches
    pixels_per_grid,  \* argument of detect_features_flow
    original_size,    \* original_image.size, <<0, 0>> until it is read
    resized_artifact, \* size of the image behind the resized-image artifact
    resized_size,     \* resized_image.size, <<0, 0>> until it is read
    wall_outline,     \* content of the wall-outline artifact
    portal_highlight, \* content of the portal-highlight artifact
    wall_segments,    \* result of detect_wall_segments
    portal_segments,  \* result of detect_portal_segments
    uvtt,             \* the UVTT document built by create_uvtt_file
    overlay,          \* what draw_features_on_image computed
    stored,           \* keys of the objects this run uploaded and registered
    run_count,        \* attempts made so far by the task run at pc
    started,          \* the stages (tasks) started, in order
    finished,         \* the stages that returned a result
    stage_error,      \* the error of the stage that failed, NoError if none
    error,            \* the exception leaving the flow, NoError if none
    updates,          \* the send_progress_update calls made, in order
    result,           \* final_result returned by the flow
    rz_in,            \* SpecResize: size of the image given to resize_image
    rz_out,           \* SpecResize: size of the image resize_image produced
    registry,         \* SpecArtifacts: artifact key -> latest artifact data
    objects,          \* SpecArtifacts: objects uploaded to the object store
    call,             \* SpecArtifacts: run -> state of its current helper call
    rt_size,          \* SpecRoundTrip: size of the original image
    rt_point,         \* SpecRoundTrip: a point of the original image
    rt_fwd,           \* SpecRoundTrip: the point rescaled to the resized image
    rt_back,          \* SpecRoundTrip: rt_fwd rescaled to the original image
    ct_in,            \* SpecContours: the contours cv2.findContours traced
    ct_out,           \* SpecContours: what detect_contours made of them
    wall_image_bytes,   \* SpecExtractors: image_bytes of detect_wall_segments
    portal_image_bytes, \* SpecExtractors: image_bytes of detect_portal_segments
    edit_call           \* SpecImageEdit: one call of an image-edit task

flowVars == <<pc, image_url, fetched_url, nested_count, has_label,
              source_image, pixels_per_grid, original_size, resized_artifact,
              resized_size, wall_outline, portal_highlight, wall_segments,
              portal_segments, uvtt, overlay, stored, run_count, started,
              finished, stage_error, error, updates, result>>
resizeVars == <<rz_in, rz_out>>
artifactVars == <<registry, objects, call>>
geometryVars == <<rt_size, rt_point, rt_fwd, rt_back, ct_in, ct_out>>
extractorVars == <<wall_image_bytes, portal_image_bytes>>
editVars == <<edit_call>>
vars == <<flowVars, resizeVars, artifactVars, geometryVars, extractorVars,
          editVars>>

(***************************************************************************)
(* Bounds of the model.                                                    *)
(***************************************************************************)
MaxDim == 12          \* SpecResize enumerates every size in 1..MaxDim squared
MaxCalls == 2         \* SpecArtifacts: helper calls made by each run

Abs(x) == IF x < 0 THEN -x ELSE x
Min(a, b) == IF a <= b THEN a ELSE b

(***************************************************************************)
(* resize_image: the bucket table and the choice of the best bucket.       *)
(* "aspect" is kept in thousandths, as written in the table of the code:   *)
(* 1.0, 1.5 and 0.667.                                                     *)
(***************************************************************************)
supported_sizes ==
    << [name |-> "square",    width |-> 1024, height |-> 1024, aspect |-> 1000],
       [name |-> "landscape", width |-> 1536, height |-> 1024, aspect |-> 1500],
       [name |-> "portrait",  width |-> 1024, height |-> 1536, aspect |-> 667] >>

\* abs(s["aspect"] - original_aspect), times 1000 * h
aspect_key(s, w, h) == Abs(s.aspect * h - 1000 * w)

\* the last entry of supported_sizes whose key is minimal
best_size_last_minimal(w, h) ==
    LET i == CHOOSE i \in 1..Len(supported_sizes) :
                 /\ \A j \in 1..Len(supported_sizes) :
                        aspect_key(supported_sizes[i], w, h)
                            <= aspect_key(supported_sizes[j], w, h)
                 /\ \A j \in (i + 1)..Len(supported_sizes) :
                        aspect_key(supported_sizes[j], w, h)
                            > aspect_key(supported_sizes[i], w, h)
    IN supported_sizes[i]

\* min(supported_sizes, key=...): the first entry whose key is minimal
best_size(w, h) ==
    LET i == CHOOSE i \in 1..Len(supported_sizes) :
                 /\ \A j \in 1..Len(supported_sizes) :
                        aspect_key(supported_sizes[i], w, h)
                            <= aspect_key(supported_sizes[j], w, h)
                 /\ \A j \in 1..(i - 1) :
                        aspect_key(supported_sizes[j], w, h)
                            > aspect_key(supported_sizes[i], w, h)
    IN supported_sizes[i]

\* resized_dimensions with the image fitted into the bucket at its own
\* aspect ratio (as Image.thumbnail does) instead of stretched to it
resized_dimensions_fit(w, h) ==
    LET b == best_size(w, h)
    IN IF w * b.height >= h * b.width
         THEN <<b.width, (h * b.width) \div w>>
         ELSE <<(w * b.height) \div h, b.height>>

\* image.resize((best_size["width"], best_size["height"]), Image.LANCZOS)
resized_dimensions(w, h) == <<best_size(w, h).width, best_size(w, h).height>>

(***************************************************************************)
(* Exceptions.  An exception is a record: its Python class, the concern    *)
(* that caused it and the place that raised it.                            *)
(***************************************************************************)
NoError == [type |-> "none", cause |-> "none", stage |-> "none"]
Exc(t, c, s) == [type |-> t, cause |-> c, stage |-> s]

\* the base class of each exception class the pipeline can meet
exception_base ==
    [ ConnectionError        |-> "OSError",     \* requests.ConnectionError
      Timeout                |-> "OSError",     \* requests.Timeout
      HTTPError              |-> "OSError",     \* requests.HTTPError
      KeyError               |-> "Exception",
      UnidentifiedImageError |-> "OSError",     \* PIL
      OSError                |-> "Exception",
      AttributeError         |-> "Exception",
      CvError                |-> "Exception",   \* cv2.error
      S3Error                |-> "Exception",   \* minio
      ValueError             |-> "Exception",
      RuntimeError           |-> "Exception",
      TypeError              |-> "Exception",
      MissingContextError    |-> "RuntimeError",
      Exception              |-> "Exception" ]

RECURSIVE is_instance(_, _)
is_instance(t, class) ==
    IF t = class THEN TRUE
    ELSE IF t = "Exception" THEN FALSE
    ELSE is_instance(exception_base[t], class)

(***************************************************************************)
(* send_progress_update (utils/callbacks.py).  "outcome" is what happens   *)
(* to the delivery: the payload is built from the run context, posted to   *)
(* the callback endpoint and the response is checked.                      *)
(***************************************************************************)
DeliveryOutcomes == {"ok", "unreachable", "timeout", "http_error"}

\* flow_run.state.name while the body of the flow executes
flow_run_state_name == "Running"

\* the exception the body of the try block raises, NoError if none
progress_exception(label, outcome) ==
    IF ~label THEN Exc("KeyError", "report", "send_progress_update")
    ELSE IF outcome = "unreachable"
        THEN Exc("ConnectionError", "report", "send_progress_update")
    ELSE IF outcome = "timeout"
        THEN Exc("Timeout", "report", "send_progress_update")
    ELSE IF outcome = "http_error"
        THEN Exc("HTTPError", "report", "send_progress_update")
    ELSE NoError

\* except RuntimeError as e: ... return False
progress_handler_catches(e) == is_instance(e.type, "RuntimeError")

\* the exception that leaves send_progress_update, NoError when it returns
send_progress_update_raises(label, outcome) ==
    LET e == progress_exception(label, outcome)
    IN IF e = NoError \/ progress_handler_catches(e) THEN NoError ELSE e

\* the record of one call: its arguments, the payload's status field and
\* whether the endpoint accepted the post
progress_call(status, progress, message, label, outcome) ==
    [ status    |-> status,
      progress  |-> progress,
      message   |-> message,
      payload_status |-> flow_run_state_name,
      delivered |-> (label /\ outcome = "ok") ]

(***************************************************************************)
(* Images and the geometry drawn on them.  A point is <<x, y>>, a wall     *)
(* polyline a sequence of points, a portal segment <<start, end>>.         *)
(***************************************************************************)
BucketSizes == { <<supported_sizes[i].width, supported_sizes[i].height>> :
                    i \in 1..Len(supported_sizes) }

\* the sizes of the images the run may be given
SourceSizes == { <<512, 768>>, <<1024, 1024>>, <<2048, 1536>>,
                 <<836, 1003>>, <<1280, 1024>>, <<3000, 1000>> }

\* "valid": decodable; "truncated": Image.open succeeds and the pixel data
\* fail to load; "garbage": Image.open fails
SourceImages == { [size |-> s, state |-> st] :
                    s \in SourceSizes, st \in {"valid", "truncated", "garbage"} }

PixelsPerGridValues == {70, 64, 1}

WallCandidates(size) ==
    LET W == size[1]
        H == size[2]
        rect == << <<10, 10>>, <<W - 11, 10>>, <<W - 11, H - 11>>, <<10, H - 11>> >>
        tri  == << <<100, 100>>, <<301, 100>>, <<100, 251>> >>
        many == [k \in 1..10 |->
                   << <<20 * k, 300>>, <<20 * k + 15, 300>>, <<20 * k, 333>> >>]
    IN { << >>, <<rect>>, <<rect, tri>>, many }

PortalCandidates(size) ==
    LET W == size[1]
        H == size[2]
        door == << <<100, 100>>, <<140, 100>> >>
        slant == << <<W - 1, 33>>, <<W - 2, H - 1>> >>
        next == << <<140, 100>>, <<180, 100>> >>
    IN { << >>, <<door>>, <<door, slant>>, <<door, door, next>> }

\* the images an outline / highlight step can produce: an image of one of
\* the supported sizes showing some lines, or bytes that do not decode
NoImage == [size |-> <<0, 0>>, ok |-> FALSE, features |-> << >>]
WallOutlineImages ==
    UNION { { [size |-> s, ok |-> TRUE, features |-> f] :
                f \in WallCandidates(s) } : s \in BucketSizes }
    \cup { [size |-> <<1024, 1024>>, ok |-> FALSE, features |-> << >>] }
PortalHighlightImages ==
    UNION { { [size |-> s, ok |-> TRUE, features |-> f] :
                f \in PortalCandidates(s) } : s \in BucketSizes }
    \cup { [size |-> <<1024, 1024>>, ok |-> FALSE, features |-> << >>] }

(***************************************************************************)
(* Rescaling, as draw_features_on_image does it: scale = original/resized  *)
(* per axis, every coordinate is int(p * scale).                           *)
(***************************************************************************)
Ratio(a, b) == [n |-> a, d |-> b]
RatioLeq(r, s) == r.n * s.d <= s.n * r.d
RatioEq(r, s) == r.n * s.d = s.n * r.d

\* scale_x computed in the direction of the resize, resized / original
scale_x_inverted(osize, rsize) == Ratio(rsize[1], osize[1])

scale_x(osize, rsize) == Ratio(osize[1], rsize[1])
scale_y(osize, rsize) == Ratio(osize[2], rsize[2])

\* int(p * scale) with the division done first, on integers: p // d * n
scale_coordinate_divide_first(p, scale) == (p \div scale.d) * scale.n

\* round(p * scale): the product rounded to the nearest integer
scale_coordinate_round(p, scale) == (2 * p * scale.n + scale.d) \div (2 * scale.d)

\* int(p * scale) for p >= 0
scale_coordinate(p, scale) == (p * scale.n) \div scale.d

scaled_point(p, sx, sy) == <<scale_coordinate(p[1], sx), scale_coordinate(p[2], sy)>>

scaled_points(points, sx, sy) ==
    [i \in DOMAIN points |-> scaled_point(points[i], sx, sy)]

\* max(2, int(2 * min(scale_x, scale_y)))
line_width(sx, sy) ==
    LET m == IF RatioLeq(sx, sy) THEN sx ELSE sy
        w == (2 * m.n) \div m.d
    IN IF w > 2 THEN w ELSE 2

\* the colours for walls, to distinguish different segments
wall_colors ==
    << <<255, 0, 0>>, <<0, 255, 0>>, <<0, 0, 255>>, <<255, 255, 0>>,
       <<255, 0, 255>>, <<0, 255, 255>>, <<128, 0, 0>>, <<0, 128, 0>>,
       <<0, 0, 128>> >>

\* the colour of segment idx with the index held at the end of the list
wall_color_clamped(idx) == wall_colors[Min(idx, Len(wall_colors) - 1) + 1]

\* wall_colors[idx % len(wall_colors)], idx counted from 0
wall_color(idx) == wall_colors[(idx % Len(wall_colors)) + 1]

\* fill=(0, 0, 255): the colour for portals
portal_color == <<0, 0, 255>>

\* draw.line([a, b], fill=fill, width=width)
draw_line(a, b, fill, width) ==
    [start |-> a, end |-> b, fill |-> fill, width |-> width]

\* the lines drawn for the wall at index idx: between consecutive points,
\* and from the last point to the first if there are more than 2 points
draw_wall(points, idx, sx, sy, width) ==
    IF Len(points) >= 2
      THEN LET sp == scaled_points(points, sx, sy)
               color == wall_color(idx)
           IN [k \in 1..(Len(sp) - 1) |->
                  draw_line(sp[k], sp[k + 1], color, width)]
              \o (IF Len(sp) > 2
                    THEN << draw_line(sp[Len(sp)], sp[1], color, width) >>
                    ELSE << >>)
      ELSE << >>

\* the line drawn for a portal segment
draw_portal(segment, sx, sy, width) ==
    draw_line(scaled_point(segment[1], sx, sy),
              scaled_point(segment[2], sx, sy), portal_color, width)

NoOverlay == [exists |-> FALSE]
draw_features(walls, portals, osize, rsize) ==
    LET sx == scale_x(osize, rsize)
        sy == scale_y(osize, rsize)
    IN [ exists  |-> TRUE,
         scale_x |-> sx,
         scale_y |-> sy,
         line_width |-> line_width(sx, sy),
         walls   |-> [i \in DOMAIN walls |-> scaled_points(walls[i], sx, sy)],
         portals |-> [i \in DOMAIN portals |->
                        << scaled_point(portals[i][1], sx, sy),
                           scaled_point(portals[i][2], sx, sy) >>],
         wall_lines |-> [i \in DOMAIN walls |->
                           draw_wall(walls[i], i - 1, sx, sy,
                                     line_width(sx, sy))],
         portal_lines |-> [i \in DOMAIN portals |->
                             draw_portal(portals[i], sx, sy,
                                         line_width(sx, sy))] ]

(***************************************************************************)
(* create_uvtt_file: the document assembled from the segments it is given. *)
(* An angle is kept as the direction it points in: the vector (dx, dy) in  *)
(* lowest terms, (1, 0) for the angle 0.0.                                 *)
(***************************************************************************)
uvtt_point(p) == [x |-> p[1], y |-> p[2]]

RECURSIVE GCD(_, _)
GCD(a, b) == IF b = 0 THEN a ELSE GCD(b, a % b)

\* np.arctan2(dy, dx); arctan2(0, 0) is 0.0
arctan2(dy, dx) ==
    IF dx = 0 /\ dy = 0 THEN [dx |-> 1, dy |-> 0]
    ELSE LET g == GCD(Abs(dx), Abs(dy))
         IN [dx |-> dx \div g, dy |-> dy \div g]

\* uvtt_portal with the centre computed on integers: (start + end) // 2
uvtt_portal_integer_centre(seg) ==
    LET start == seg[1]
        end   == seg[2]
    IN [ position |-> [x |-> Ratio((start[1] + end[1]) \div 2, 1),
                       y |-> Ratio((start[2] + end[2]) \div 2, 1)],
         bounds   |-> << uvtt_point(start), uvtt_point(end) >>,
         rotation |-> arctan2(end[2] - start[2], end[1] - start[1]),
         closed   |-> FALSE,
         freestanding |-> FALSE ]

uvtt_portal(seg) ==
    LET start == seg[1]
        end   == seg[2]
    IN [ position |-> [x |-> Ratio(start[1] + end[1], 2),
                       y |-> Ratio(start[2] + end[2], 2)],
         bounds   |-> << uvtt_point(start), uvtt_point(end) >>,
         rotation |-> arctan2(end[2] - start[2], end[1] - start[1]),
         closed   |-> FALSE,
         freestanding |-> FALSE ]

\* original_size[0] // pixels_per_grid: the division done on integers
width_in_squares_floor(osize, ppg) == Ratio(osize[1] \div ppg, 1)

\* float(original_size[0] / pixels_per_grid), float(original_size[1] / ...)
width_in_squares(osize, ppg) == Ratio(osize[1], ppg)
height_in_squares(osize, ppg) == Ratio(osize[2], ppg)

\* line_of_sight with every polyline closed: its first point added at the end
uvtt_line_of_sight_closed(walls) ==
    [i \in DOMAIN walls |->
        [j \in 1..(Len(walls[i]) + 1) |->
            uvtt_point(walls[i][IF j > Len(walls[i]) THEN 1 ELSE j])]]

\* line_of_sight: for each wall, the list of its points as {x: int, y: int}
uvtt_line_of_sight(walls) ==
    [i \in DOMAIN walls |->
        [j \in DOMAIN walls[i] |-> uvtt_point(walls[i][j])]]

RECURSIVE uvtt_portals_deduplicated(_)
\* portals with a segment skipped when an equal one came earlier
uvtt_portals_deduplicated(segments) ==
    IF segments = << >> THEN << >>
    ELSE LET n == Len(segments)
             front == uvtt_portals_deduplicated(SubSeq(segments, 1, n - 1))
         IN IF \E k \in 1..(n - 1) : segments[k] = segments[n]
            THEN front
            ELSE Append(front, uvtt_portal(segments[n]))

\* portals: one portal appended for each segment of portal_segments
uvtt_portals(segments) ==
    [i \in DOMAIN segments |-> uvtt_portal(segments[i])]

NoUvtt == [exists |-> FALSE]
uvtt_data(walls, portals, osize, ppg) ==
    [ exists |-> TRUE,
      resolution |-> [ map_origin |-> [x |-> 0, y |-> 0],
                       map_size |-> [x |-> width_in_squares(osize, ppg),
                                     y |-> height_in_squares(osize, ppg)],
                       pixels_per_grid |-> ppg ],
      line_of_sight |-> uvtt_line_of_sight(walls),
      portals |-> uvtt_portals(portals),
      image |-> osize ]

(***************************************************************************)
(* detect_features_flow: the statements of its body, in program order.     *)
(* pc names the statement to execute next; "except" is the handler of the  *)
(* try block, "raised" and "returned" are the two ways the run ends.       *)
(***************************************************************************)
flow_body ==
    << "progress_0", "progress_5", "fetch_image", "store_original",
       "progress_10", "open_original", "resize_image", "read_resized",
       "progress_15", "progress_20", "outline_impassable_areas",
       "progress_30", "highlight_portals", "progress_45", "progress_50",
       "detect_wall_segments", "progress_60", "detect_portal_segments",
       "progress_70", "progress_80", "create_uvtt_file", "progress_85",
       "draw_features_on_image", "final_result", "progress_100", "return" >>

next_pc(p) ==
    LET i == CHOOSE i \in 1..Len(flow_body) : flow_body[i] = p
    IN flow_body[i + 1]

\* the arguments of each send_progress_update call of the body
progress_steps ==
    [ progress_0   |-> [status |-> "running",   progress |-> 0],
      progress_5   |-> [status |-> "running",   progress |-> 5],
      progress_10  |-> [status |-> "running",   progress |-> 10],
      progress_15  |-> [status |-> "running",   progress |-> 15],
      progress_20  |-> [status |-> "running",   progress |-> 20],
      progress_30  |-> [status |-> "running",   progress |-> 30],
      progress_45  |-> [status |-> "running",   progress |-> 45],
      progress_50  |-> [status |-> "running",   progress |-> 50],
      progress_60  |-> [status |-> "running",   progress |-> 60],
      progress_70  |-> [status |-> "running",   progress |-> 70],
      progress_80  |-> [status |-> "running",   progress |-> 80],
      progress_85  |-> [status |-> "running",   progress |-> 85],
      progress_100 |-> [status |-> "completed", progress |-> 100] ]

\* the first send_progress_update call precedes the try block
in_try_block(p) == p # "progress_0"

\* @task(..., retries=N)
task_retries ==
    [ fetch_image              |-> 2,
      resize_image             |-> 2,
      outline_impassable_areas |-> 2,
      highlight_portals        |-> 2,
      detect_wall_segments     |-> 2,
      detect_portal_segments   |-> 2,
      create_uvtt_file         |-> 2,
      draw_features_on_image   |-> 1 ]

Tasks == DOMAIN task_retries

\* retry_task with one retry more than the decorator grants
retry_task_one_more(task, n, e) == n <= task_retries[task] + 1

\* the decorators give no retry condition: attempt n that raised e is
\* retried while retries remain, whatever e is
retry_task(task, n, e) == n <= task_retries[task]

NoResult == [status |-> "none"]

\* the URL the first statement of the flow assigns to image_url
\* ("Temporary for testing")
TestImageUrl ==
    "http://localhost:9000/prefect/original-image-c15b5c33-53e3-47ce-9415-d1d4abe8d660"

\* the URLs a caller may pass
ImageUrls == {TestImageUrl, "http://maps.example/cave.png"}

\* the value of image_url once the first statement has run
assigned_image_url(url) == TestImageUrl

FlowInit ==
    /\ pc = "progress_0"
    /\ image_url \in ImageUrls
    /\ fetched_url = ""
    /\ nested_count = 0
    /\ has_label \in BOOLEAN
    /\ source_image \in SourceImages
    /\ pixels_per_grid \in PixelsPerGridValues
    /\ original_size = <<0, 0>>
    /\ resized_artifact = <<0, 0>>
    /\ resized_size = <<0, 0>>
    /\ wall_outline = NoImage
    /\ portal_highlight = NoImage
    /\ wall_segments = << >>
    /\ portal_segments = << >>
    /\ uvtt = NoUvtt
    /\ overlay = NoOverlay
    /\ stored = {}
    /\ run_count = 0
    /\ started = << >>
    /\ finished = {}
    /\ stage_error = NoError
    /\ error = NoError
    /\ updates = << >>
    /\ result = NoResult

\* TaskAttempt with the error of the last attempt logged and dropped: the
\* body goes on with its next statement
TaskAttempt_swallow(task, e) ==
    LET n == run_count + 1
    IN /\ started' = IF run_count = 0 THEN Append(started, task) ELSE started
       /\ IF e = NoError
            THEN /\ finished' = finished \cup {task}
                 /\ pc' = next_pc(pc)
                 /\ run_count' = 0
                 /\ UNCHANGED <<stage_error, error>>
          ELSE IF retry_task(task, n, e)
            THEN /\ pc' = pc
                 /\ run_count' = n
                 /\ UNCHANGED <<finished, stage_error, error>>
          ELSE /\ pc' = next_pc(pc)
               /\ run_count' = 0
               /\ stage_error' = e
               /\ error' = e
               /\ UNCHANGED finished

\* one attempt of the task at pc ended with e (NoError: it returned)
TaskAttempt(task, e) ==
    LET n == run_count + 1
    IN /\ started' = IF run_count = 0 THEN Append(started, task) ELSE started
       /\ IF e = NoError
            THEN /\ finished' = finished \cup {task}
                 /\ pc' = next_pc(pc)
                 /\ run_count' = 0
                 /\ UNCHANGED <<stage_error, error>>
          ELSE IF retry_task(task, n, e)
            THEN /\ pc' = pc
                 /\ run_count' = n
                 /\ UNCHANGED <<finished, stage_error, error>>
          ELSE /\ pc' = "except"
               /\ run_count' = n
               /\ stage_error' = e
               /\ error' = e
               /\ UNCHANGED finished

\* a statement of the body that is not a task ended with e
InlineStep(e) ==
    /\ IF e = NoError
         THEN pc' = next_pc(pc) /\ UNCHANGED <<stage_error, error>>
         ELSE pc' = "except" /\ stage_error' = e /\ error' = e
    /\ UNCHANGED <<run_count, started, finished>>

\* send_progress_update(status=..., progress=..., message=...) in the body
ReportProgress ==
    /\ pc \in DOMAIN progress_steps
    /\ \E outcome \in DeliveryOutcomes :
         LET step == progress_steps[pc]
             e == send_progress_update_raises(has_label, outcome)
         IN /\ updates' = Append(updates,
                  progress_call(step.status, step.progress, NoError,
                                has_label, outcome))
            /\ IF e = NoError
                 THEN pc' = next_pc(pc) /\ UNCHANGED error
               ELSE IF in_try_block(pc)
                 THEN pc' = "except" /\ error' = e
               ELSE pc' = "raised" /\ error' = e
    /\ UNCHANGED <<image_url, fetched_url, nested_count, has_label,
                   source_image, pixels_per_grid, original_size,
                   resized_artifact, resized_size, wall_outline,
                   portal_highlight, wall_segments, portal_segments, uvtt,
                   overlay, stored, run_count, started, finished, stage_error,
                   result>>

\* except Exception as e: send_progress_update(status="failed", ...); raise
HandleFailure ==
    /\ pc = "except"
    /\ \E outcome \in DeliveryOutcomes :
         LET e == send_progress_update_raises(has_label, outcome)
         IN /\ updates' = Append(updates,
                  progress_call("failed", 0, error, has_label, outcome))
            /\ error' = IF e = NoError THEN error ELSE e
    /\ pc' = "raised"
    /\ UNCHANGED <<image_url, fetched_url, nested_count, has_label,
                   source_image, pixels_per_grid, original_size,
                   resized_artifact, resized_size, wall_outline,
                   portal_highlight, wall_segments, portal_segments, uvtt,
                   overlay, stored, run_count, started, finished, stage_error,
                   result>>

\* original_image_bytes = fetch_image(image_url)
FetchImage ==
    /\ pc = "fetch_image"
    /\ \E e \in {NoError, Exc("HTTPError", "fetch", "fetch_image")} :
         TaskAttempt("fetch_image", e)
    /\ fetched_url' = assigned_image_url(image_url)
    /\ UNCHANGED <<image_url, nested_count, has_label,
                   source_image, pixels_per_grid, original_size,
                   resized_artifact, resized_size, wall_outline,
                   portal_highlight, wall_segments, portal_segments, uvtt,
                   overlay, stored, updates, result>>

\* create_image_artifact(content=original_image_bytes, key="original-image")
StoreOriginal ==
    /\ pc = "store_original"
    /\ \E e \in {NoError, Exc("S3Error", "store", "store_original")} :
         /\ InlineStep(e)
         /\ stored' = IF e = NoError THEN stored \cup {"original-image"}
                      ELSE stored
    /\ UNCHANGED <<image_url, fetched_url, nested_count, has_label,
                   source_image, pixels_per_grid, original_size,
                   resized_artifact, resized_size, wall_outline,
                   portal_highlight, wall_segments, portal_segments, uvtt,
                   overlay, updates, result>>

\* original_image = Image.open(...); original_size = original_image.size
OpenOriginal ==
    /\ pc = "open_original"
    /\ LET e == IF source_image.state = "garbage"
                THEN Exc("UnidentifiedImageError", "decode", "open_original")
                ELSE NoError
       IN /\ InlineStep(e)
          /\ original_size' = IF e = NoError THEN source_image.size
                              ELSE original_size
    /\ UNCHANGED <<image_url, fetched_url, nested_count, has_label,
                   source_image, pixels_per_grid,
                   resized_artifact, resized_size, wall_outline,
                   portal_highlight, wall_segments, portal_segments, uvtt,
                   overlay, stored, updates, result>>

\* the exceptions one attempt of resize_image can end with
resize_image_outcomes(image) ==
    IF image.state = "garbage"
      THEN {Exc("UnidentifiedImageError", "decode", "resize_image")}
    ELSE IF image.state = "truncated"
      THEN {Exc("OSError", "decode", "resize_image")}
    ELSE {NoError, Exc("S3Error", "store", "resize_image")}

\* resized_artifact = resize_image(original_image_bytes)
ResizeImage ==
    /\ pc = "resize_image"
    /\ \E e \in resize_image_outcomes(source_image) :
         /\ TaskAttempt("resize_image", e)
         /\ IF e = NoError
              THEN /\ resized_artifact' =
                        resized_dimensions(source_image.size[1],
                                           source_image.size[2])
                   /\ stored' = stored \cup {"resized-image"}
              ELSE UNCHANGED <<resized_artifact, stored>>
    /\ UNCHANGED <<image_url, fetched_url, nested_count, has_label,
                   source_image, pixels_per_grid, original_size,
                   resized_size, wall_outline, portal_highlight,
                   wall_segments, portal_segments, uvtt, overlay, updates,
                   result>>

\* resized_image_bytes = fetch_artifact_data(resized_artifact);
\* resized_size = Image.open(...).size
ReadResized ==
    /\ pc = "read_resized"
    /\ \E e \in {NoError, Exc("ConnectionError", "fetch", "read_resized")} :
         /\ InlineStep(e)
         /\ resized_size' = IF e = NoError THEN resized_artifact
                            ELSE resized_size
    /\ UNCHANGED <<image_url, fetched_url, nested_count, has_label,
                   source_image, pixels_per_grid, original_size,
                   resized_artifact, wall_outline, portal_highlight,
                   wall_segments, portal_segments, uvtt, overlay, stored,
                   updates, result>>

\* the exceptions one attempt of outline_impassable_areas can end with:
\* reading the input artifact and checking its size precede the try block,
\* whatever the try block raises is re-raised as RuntimeError
outline_impassable_areas_outcomes(size, mock) ==
    IF size \notin BucketSizes
      THEN { Exc("ConnectionError", "fetch", "outline_impassable_areas"),
             Exc("ValueError", "size", "outline_impassable_areas") }
    ELSE { NoError,
           Exc("ConnectionError", "fetch", "outline_impassable_areas"),
           Exc("RuntimeError", IF mock THEN "fetch" ELSE "edit",
               "outline_impassable_areas"),
           Exc("RuntimeError", "store", "outline_impassable_areas") }

\* tasks that, with mock=True, call the task fetch_image in their try block
NestingTasks == {"outline_impassable_areas", "highlight_portals"}

\* can an attempt of a nesting task end with e after n failed attempts of
\* its nested fetch_image run: the errors that precede the try block come
\* before the nested run, and the nested run fails only when it has no
\* retry left
nested_fetch_allows(e, n) ==
    IF e.type = "RuntimeError" /\ e.cause = "fetch"
      THEN ~retry_task("fetch_image", n + 1, e)
    ELSE IF e.type \in {"ConnectionError", "ValueError"} THEN n = 0
    ELSE TRUE

\* result_image_bytes = fetch_image("http://localhost:9000/prefect/..."):
\* an attempt of the nested task run failed and is retried
NestedFetchImage ==
    /\ pc \in NestingTasks
    /\ retry_task("fetch_image", nested_count + 1,
                  Exc("HTTPError", "fetch", "fetch_image"))
    /\ nested_count' = nested_count + 1
    /\ UNCHANGED <<pc, image_url, fetched_url, has_label, source_image,
                   pixels_per_grid, original_size, resized_artifact,
                   resized_size, wall_outline, portal_highlight,
                   wall_segments, portal_segments, uvtt, overlay, stored,
                   run_count, started, finished, stage_error, error, updates,
                   result>>

\* wall_outline_artifact = outline_impassable_areas(resized_artifact, mock=True)
OutlineImpassableAreas ==
    /\ pc = "outline_impassable_areas"
    /\ \E e \in outline_impassable_areas_outcomes(resized_artifact, TRUE) :
         /\ nested_fetch_allows(e, nested_count)
         /\ nested_count' = 0
         /\ TaskAttempt("outline_impassable_areas", e)
         /\ IF e = NoError
              THEN /\ \E img \in WallOutlineImages : wall_outline' = img
                   /\ stored' = stored \cup {"wall-outline"}
              ELSE UNCHANGED <<wall_outline, stored>>
    /\ UNCHANGED <<image_url, fetched_url, has_label,
                   source_image, pixels_per_grid, original_size,
                   resized_artifact, resized_size, portal_highlight,
                   wall_segments, portal_segments, uvtt, overlay, updates,
                   result>>

\* the exceptions one attempt of highlight_portals can end with: the whole
\* body is inside the try block
highlight_portals_outcomes(size, mock) ==
    { NoError,
      Exc("RuntimeError", IF mock THEN "fetch" ELSE "edit", "highlight_portals"),
      Exc("RuntimeError", "store", "highlight_portals") }

\* portal_highlight_artifact = highlight_portals(resized_image_bytes, mock=True)
HighlightPortals ==
    /\ pc = "highlight_portals"
    /\ \E e \in highlight_portals_outcomes(resized_size, TRUE) :
         /\ nested_fetch_allows(e, nested_count)
         /\ nested_count' = 0
         /\ TaskAttempt("highlight_portals", e)
         /\ IF e = NoError
              THEN /\ \E img \in PortalHighlightImages : portal_highlight' = img
                   /\ stored' = stored \cup {"portal-highlight"}
              ELSE UNCHANGED <<portal_highlight, stored>>
    /\ UNCHANGED <<image_url, fetched_url, has_label,
                   source_image, pixels_per_grid, original_size,
                   resized_artifact, resized_size, wall_outline,
                   wall_segments, portal_segments, uvtt, overlay, updates,
                   result>>

\* cv2.imdecode returns None for bytes that are no image; image.shape then
\* raises AttributeError
detect_wall_segments_outcomes(image) ==
    IF image.ok
      THEN {NoError, Exc("ConnectionError", "fetch", "detect_wall_segments")}
      ELSE {Exc("AttributeError", "decode", "detect_wall_segments"),
            Exc("ConnectionError", "fetch", "detect_wall_segments")}

\* the artifact the flow hands to detect_wall_segments
wall_detection_input(wall_outline_artifact, portal_highlight_artifact) ==
    wall_outline_artifact

\* detect_portal_segments handed the wall-outline artifact
portal_detection_input_wall(wall_outline_artifact, portal_highlight_artifact) ==
    wall_outline_artifact

\* the artifact the flow hands to detect_portal_segments
portal_detection_input(wall_outline_artifact, portal_highlight_artifact) ==
    portal_highlight_artifact

\* contour_segments = detect_contours(binary); return all_segments
contour_wall_segments(image) == image.features

\* wall_segments = detect_wall_segments(wall_outline_artifact)
DetectWallSegments ==
    /\ pc = "detect_wall_segments"
    /\ LET image == wall_detection_input(wall_outline, portal_highlight)
       IN \E e \in detect_wall_segments_outcomes(image) :
            /\ TaskAttempt("detect_wall_segments", e)
            /\ wall_segments' = IF e = NoError
                                  THEN contour_wall_segments(image)
                                  ELSE wall_segments
    /\ UNCHANGED <<image_url, fetched_url, nested_count, has_label,
                   source_image, pixels_per_grid, original_size,
                   resized_artifact, resized_size, wall_outline,
                   portal_highlight, portal_segments, uvtt, overlay, stored,
                   updates, result>>

\* cv2.HoughLinesP(binary, ...): None when it finds no line, else the lines
HoughLinesP(image) ==
    [is_none |-> image.features = << >>, lines |-> image.features]

\* portal_segments = []; if lines is not None: for line in lines: append
hough_portal_segments(image) ==
    LET lines == HoughLinesP(image)
    IN IF ~lines.is_none THEN lines.lines ELSE << >>

\* detect_portal_segments_outcomes with "for line in lines" not guarded by
\* "if lines is not None": iterating None raises TypeError
detect_portal_segments_outcomes_unguarded(image) ==
    IF ~image.ok
      THEN {Exc("CvError", "decode", "detect_portal_segments"),
            Exc("ConnectionError", "fetch", "detect_portal_segments")}
    ELSE IF HoughLinesP(image).is_none
      THEN {Exc("TypeError", "no_lines", "detect_portal_segments"),
            Exc("ConnectionError", "fetch", "detect_portal_segments")}
    ELSE {NoError, Exc("ConnectionError", "fetch", "detect_portal_segments")}

\* cv2.cvtColor raises cv2.error when cv2.imdecode returned None; a result
\* of HoughLinesP that is None is skipped, not iterated
detect_portal_segments_outcomes(image) ==
    IF image.ok
      THEN {NoError, Exc("ConnectionError", "fetch", "detect_portal_segments")}
      ELSE {Exc("CvError", "decode", "detect_portal_segments"),
            Exc("ConnectionError", "fetch", "detect_portal_segments")}

\* portal_segments = detect_portal_segments(portal_highlight_artifact)
DetectPortalSegments ==
    /\ pc = "detect_portal_segments"
    /\ LET image == portal_detection_input(wall_outline, portal_highlight)
       IN \E e \in detect_portal_segments_outcomes(image) :
            /\ TaskAttempt("detect_portal_segments", e)
            /\ portal_segments' = IF e = NoError
                                    THEN hough_portal_segments(image)
                                    ELSE portal_segments
    /\ UNCHANGED <<image_url, fetched_url, nested_count, has_label,
                   source_image, pixels_per_grid, original_size,
                   resized_artifact, resized_size, wall_outline,
                   portal_highlight, wall_segments, uvtt, overlay, stored,
                   updates, result>>

\* uvtt_artifact = create_uvtt_file(wall_segments, portal_segments,
\*                                  original_image_bytes, original_size,
\*                                  pixels_per_grid)
CreateUvttFile ==
    /\ pc = "create_uvtt_file"
    /\ \E e \in {NoError, Exc("S3Error", "store", "create_uvtt_file")} :
         /\ TaskAttempt("create_uvtt_file", e)
         /\ IF e = NoError
              THEN /\ uvtt' = uvtt_data(wall_segments, portal_segments,
                                        original_size, pixels_per_grid)
                   /\ stored' = stored \cup {"uvtt-file"}
              ELSE UNCHANGED <<uvtt, stored>>
    /\ UNCHANGED <<image_url, fetched_url, nested_count, has_label,
                   source_image, pixels_per_grid, original_size,
                   resized_artifact, resized_size, wall_outline,
                   portal_highlight, wall_segments, portal_segments, overlay,
                   updates, result>>

\* final_image_artifact = draw_features_on_image(original_image_bytes,
\*     wall_segments, portal_segments, original_size, resized_size)
DrawFeaturesOnImage ==
    /\ pc = "draw_features_on_image"
    /\ \E e \in {NoError, Exc("S3Error", "store", "draw_features_on_image")} :
         /\ TaskAttempt("draw_features_on_image", e)
         /\ IF e = NoError
              THEN /\ overlay' = draw_features(wall_segments, portal_segments,
                                               original_size, resized_size)
                   /\ stored' = stored \cup {"feature-detected-image"}
              ELSE UNCHANGED <<overlay, stored>>
    /\ UNCHANGED <<image_url, fetched_url, nested_count, has_label,
                   source_image, pixels_per_grid, original_size,
                   resized_artifact, resized_size, wall_outline,
                   portal_highlight, wall_segments, portal_segments, uvtt,
                   updates, result>>

\* final_result = {...}; create_markdown_artifact(key="detected-features", ...)
FinalResult ==
    /\ pc = "final_result"
    /\ \E e \in {NoError, Exc("Exception", "store", "final_result")} :
         /\ InlineStep(e)
         /\ stored' = IF e = NoError THEN stored \cup {"detected-features"}
                      ELSE stored
    /\ UNCHANGED <<image_url, fetched_url, nested_count, has_label,
                   source_image, pixels_per_grid, original_size,
                   resized_artifact, resized_size, wall_outline,
                   portal_highlight, wall_segments, portal_segments, uvtt,
                   overlay, updates, result>>

\* return final_result
Return ==
    /\ pc = "return"
    /\ pc' = "returned"
    /\ result' = [ status |-> "completed",
                   wall_segments_count |-> Len(wall_segments),
                   portal_segments_count |-> Len(portal_segments),
                   uvtt_file |-> uvtt,
                   original_size |-> original_size,
                   resized_size |-> resized_size,
                   pixels_per_grid |-> pixels_per_grid ]
    /\ UNCHANGED <<image_url, fetched_url, nested_count, has_label,
                   source_image, pixels_per_grid, original_size,
                   resized_artifact, resized_size, wall_outline,
                   portal_highlight, wall_segments, portal_segments, uvtt,
                   overlay, stored, run_count, started, finished, stage_error,
                   error, updates>>

NoPoint == <<-1, -1>>

NoContours == [done |-> FALSE, segments |-> << >>, origin |-> << >>,
               simplified |-> {}]

\* no call of an image-edit task is being made
NoEditCall == [at |-> "idle"]
EditIdle == edit_call = NoEditCall

ExtractorsIdle ==
    /\ wall_image_bytes = NoImage
    /\ portal_image_bytes = NoImage

GeometryIdle ==
    /\ rt_size = <<0, 0>>
    /\ rt_point = NoPoint
    /\ rt_fwd = NoPoint
    /\ rt_back = NoPoint
    /\ ct_in = << >>
    /\ ct_out = NoContours

Init ==
    /\ FlowInit
    /\ rz_in = <<0, 0>>
    /\ rz_out = <<0, 0>>
    /\ registry = << >>
    /\ objects = {}
    /\ call = << >>
    /\ GeometryIdle
    /\ ExtractorsIdle
    /\ EditIdle

Next ==
    /\ \/ ReportProgress
       \/ FetchImage
       \/ StoreOriginal
       \/ OpenOriginal
       \/ ResizeImage
       \/ ReadResized
       \/ NestedFetchImage
       \/ OutlineImpassableAreas
       \/ HighlightPortals
       \/ DetectWallSegments
       \/ DetectPortalSegments
       \/ CreateUvttFile
       \/ DrawFeaturesOnImage
       \/ FinalResult
       \/ Return
       \/ HandleFailure
    /\ UNCHANGED <<resizeVars, artifactVars, geometryVars, extractorVars,
                   editVars>>

Spec == Init /\ [][Next]_vars

\* the run under the assumption that every attempt and every statement
\* that has started terminates
SpecTerminating == Spec /\ WF_vars(Next)

(***************************************************************************)
(* SpecResize: resize_image as a function of the size of its input.        *)
(***************************************************************************)
FlowIdle ==
    /\ pc = "idle"
    /\ image_url = TestImageUrl
    /\ fetched_url = ""
    /\ nested_count = 0
    /\ has_label = TRUE
    /\ source_image = [size |-> <<1024, 1024>>, state |-> "valid"]
    /\ pixels_per_grid = 70
    /\ original_size = <<0, 0>>
    /\ resized_artifact = <<0, 0>>
    /\ resized_size = <<0, 0>>
    /\ wall_outline = NoImage
    /\ portal_highlight = NoImage
    /\ wall_segments = << >>
    /\ portal_segments = << >>
    /\ uvtt = NoUvtt
    /\ overlay = NoOverlay
    /\ stored = {}
    /\ run_count = 0
    /\ started = << >>
    /\ finished = {}
    /\ stage_error = NoError
    /\ error = NoError
    /\ updates = << >>
    /\ result = NoResult

ArtifactsIdle ==
    /\ registry = << >>
    /\ objects = {}
    /\ call = << >>

\* every size up to MaxDim x MaxDim, the sizes the flow model uses, and
\* some very wide, very tall and large images
ResizeInputs ==
    ((1..MaxDim) \X (1..MaxDim)) \cup SourceSizes \cup BucketSizes
        \cup { <<1, 4000>>, <<4000, 1>>, <<4096, 4096>>, <<1920, 1080>>,
               <<1080, 1920>>, <<3000, 2000>> }

ResizeInit ==
    /\ FlowIdle
    /\ ArtifactsIdle
    /\ GeometryIdle
    /\ ExtractorsIdle
    /\ EditIdle
    /\ rz_in \in ResizeInputs
    /\ rz_out = <<0, 0>>

\* resize_image applied to a decodable image of size rz_in
Resize ==
    /\ rz_out = <<0, 0>>
    /\ rz_out' = resized_dimensions(rz_in[1], rz_in[2])
    /\ UNCHANGED <<rz_in, flowVars, artifactVars, geometryVars, extractorVars,
                   editVars>>

SpecResize == ResizeInit /\ [][Resize]_vars

(***************************************************************************)
(* SpecArtifacts: flow runs that call create_image_artifact /              *)
(* create_link_artifact (utils/artifact_helpers.py) at the same time.      *)
(* Each helper call is three requests: the upload to the object store,     *)
(* the creation of the artifact under its key, and Artifact.get(key).      *)
(***************************************************************************)
FLOW_CONCURRENCY_LIMIT == 3
MaxRuns == 2
Runs == 1..Min(MaxRuns, FLOW_CONCURRENCY_LIMIT)

\* the keys the feature-detection tasks pass to the two helpers
ArtifactKeys == {"wall-outline", "uvtt-file"}
helper_of(key) ==
    IF key = "uvtt-file" THEN "create_link_artifact" ELSE "create_image_artifact"

NoUrl == <<"none", 0, 0>>
IdleCall == [pc |-> "idle", key |-> "none", made |-> 0,
             content_url |-> NoUrl, returned |-> NoUrl]

ArtifactsInit ==
    /\ FlowIdle
    /\ GeometryIdle
    /\ ExtractorsIdle
    /\ EditIdle
    /\ rz_in = <<0, 0>>
    /\ rz_out = <<0, 0>>
    /\ registry = [k \in ArtifactKeys |-> NoUrl]
    /\ objects = {}
    /\ call = [r \in Runs |-> IdleCall]

\* a task of run r calls the helper with its own content under key
BeginCall(r) ==
    /\ call[r].pc \in {"idle", "done"}
    /\ call[r].made < MaxCalls
    /\ \E key \in ArtifactKeys :
         call' = [call EXCEPT ![r] =
                    [pc |-> "upload", key |-> key, made |-> @.made + 1,
                     content_url |-> NoUrl, returned |-> NoUrl]]
    /\ UNCHANGED <<registry, objects, flowVars, resizeVars, geometryVars,
                   extractorVars, editVars>>

\* object_name = f"{key}-{uuid.uuid4()}";
\* content_url = upload_to_minio(object_name, content_bytes, ...)
UploadToMinio(r) ==
    /\ call[r].pc = "upload"
    /\ LET url == <<call[r].key, r, call[r].made>>
       IN /\ objects' = objects \cup {url}
          /\ call' = [call EXCEPT ![r].pc = "create", ![r].content_url = url]
    /\ UNCHANGED <<registry, flowVars, resizeVars, geometryVars,
                   extractorVars, editVars>>

\* create_image_artifact_original(key=key, image_url=content_url, ...) or
\* create_link_artifact_original(key=key, link=content_url, ...)
CreateArtifact(r) ==
    /\ call[r].pc = "create"
    /\ registry' = [registry EXCEPT ![call[r].key] = call[r].content_url]
    /\ call' = [call EXCEPT ![r].pc = "get"]
    /\ UNCHANGED <<objects, flowVars, resizeVars, geometryVars,
                   extractorVars, editVars>>

\* return Artifact.get(key): the latest artifact stored under the key
ArtifactGet(r) ==
    /\ call[r].pc = "get"
    /\ call' = [call EXCEPT ![r].pc = "done",
                            ![r].returned = registry[call[r].key]]
    /\ UNCHANGED <<registry, objects, flowVars, resizeVars, geometryVars,
                   extractorVars, editVars>>

ArtifactsNext ==
    \E r \in Runs :
       \/ BeginCall(r)
       \/ UploadToMinio(r)
       \/ CreateArtifact(r)
       \/ ArtifactGet(r)

SpecArtifacts == ArtifactsInit /\ [][ArtifactsNext]_vars

(***************************************************************************)
(* SpecRoundTrip: a point of the original image is rescaled to the resized *)
(* image and back, each time as draw_features_on_image rescales a          *)
(* coordinate: per-axis factor, int(p * scale).  The step to the resized   *)
(* image uses the reciprocal factors resized / original.                   *)
(***************************************************************************)
\* the sizes of the original images; for each of them and every coordinate
\* the float product int(p * scale) equals the exact quotient
RoundTripSizes ==
    SourceSizes \cup { <<1920, 1080>>, <<1100, 1100>>, <<700, 1000>> }

\* points of a w x h image: every x and every y occurs
RoundTripPoints(size) ==
    LET w == size[1]
        h == size[2]
    IN { <<x, (x * h) \div w>> : x \in 0..(w - 1) }
       \cup { <<(y * w) \div h, y>> : y \in 0..(h - 1) }

reciprocal(scale) == Ratio(scale.d, scale.n)

RoundTripInit ==
    /\ FlowIdle
    /\ ArtifactsIdle
    /\ ExtractorsIdle
    /\ EditIdle
    /\ rz_in = <<0, 0>>
    /\ rz_out = <<0, 0>>
    /\ rt_size \in RoundTripSizes
    /\ rt_point \in RoundTripPoints(rt_size)
    /\ rt_fwd = NoPoint
    /\ rt_back = NoPoint
    /\ ct_in = << >>
    /\ ct_out = NoContours

\* original -> resized, with the bucket resize_image chooses for rt_size
RescaleToResized ==
    /\ rt_fwd = NoPoint
    /\ LET rsize == resized_dimensions(rt_size[1], rt_size[2])
       IN rt_fwd' = scaled_point(rt_point,
                                 reciprocal(scale_x(rt_size, rsize)),
                                 reciprocal(scale_y(rt_size, rsize)))
    /\ UNCHANGED <<rt_size, rt_point, rt_back, ct_in, ct_out, flowVars,
                   resizeVars, artifactVars, extractorVars, editVars>>

\* resized -> original: scaled_points of draw_features_on_image
RescaleToOriginal ==
    /\ rt_fwd # NoPoint
    /\ rt_back = NoPoint
    /\ LET rsize == resized_dimensions(rt_size[1], rt_size[2])
       IN rt_back' = scaled_point(rt_fwd, scale_x(rt_size, rsize),
                                  scale_y(rt_size, rsize))
    /\ UNCHANGED <<rt_size, rt_point, rt_fwd, ct_in, ct_out, flowVars,
                   resizeVars, artifactVars, extractorVars, editVars>>

RoundTripNext == RescaleToResized \/ RescaleToOriginal

SpecRoundTrip == RoundTripInit /\ [][RoundTripNext]_vars

(***************************************************************************)
(* detect_contours: the area filter, cv2.approxPolyDP with epsilon =        *)
(* 0.005 * cv2.arcLength(cnt, True), and the filter on the point count.     *)
(* A contour is the sequence of its vertices.  The contours of the model    *)
(* are axis-aligned rectangles, whose perimeter is an integer.              *)
(***************************************************************************)
\* vertex i of a closed contour, counted from 0 and modulo its length
Pt(cnt, i) == cnt[(i % Len(cnt)) + 1]

RECURSIVE SumSeq(_, _)
SumSeq(f, n) == IF n = 0 THEN 0 ELSE f[n] + SumSeq(f, n - 1)

\* twice cv2.contourArea(cnt): the area by Green's formula is half of it
contourArea2(cnt) ==
    LET n == Len(cnt)
        term == [i \in 1..n |->
                    Pt(cnt, i - 1)[1] * Pt(cnt, i)[2]
                        - Pt(cnt, i)[1] * Pt(cnt, i - 1)[2]]
    IN Abs(SumSeq(term, n))

\* if area <= 30: continue
skip_contour_inclusive(cnt) == contourArea2(cnt) <= 2 * 30

\* if area < 30: continue
skip_contour(cnt) == contourArea2(cnt) < 2 * 30

\* cv2.arcLength(cnt, True) of a contour whose edges are axis-aligned
arcLength(cnt) ==
    LET n == Len(cnt)
        edge == [i \in 1..n |->
                    Abs(Pt(cnt, i)[1] - Pt(cnt, i - 1)[1])
                        + Abs(Pt(cnt, i)[2] - Pt(cnt, i - 1)[2])]
    IN SumSeq(edge, n)

\* epsilon = 0.005 * cv2.arcLength(cnt, True)
epsilon(cnt) == Ratio(arcLength(cnt), 200)

\* the sign of a * a - p * p * d for a, d >= 0 and p > 0, computed without
\* a product that exceeds 32 bits
SignSq(a, p, d) ==
    LET q == a \div p
        r == a % p
    IN IF q > 46340 THEN 1
       ELSE IF q * q > d THEN 1
       ELSE IF (q + 1) * (q + 1) <= d THEN -1
       ELSE LET m == (d - q * q) * p - 2 * q * r
            IN IF m <= 0 THEN (IF r = 0 /\ m = 0 THEN 0 ELSE 1)
               ELSE IF m >= p THEN -1
               ELSE IF r * r > p * m THEN 1
               ELSE IF r * r = p * m THEN 0
               ELSE -1

SqDist(a, b) == (a[1] - b[1]) * (a[1] - b[1]) + (a[2] - b[2]) * (a[2] - b[2])

\* fabs((pt.y - start.y) * dx - (pt.x - start.x) * dy), (dx, dy) = end - start
LineDist(pt, start, end) ==
    Abs((pt[2] - start[2]) * (end[1] - start[1])
            - (pt[1] - start[1]) * (end[2] - start[2]))

\* approxPolyDP, step 1: the offset j in 1..count-1 of the vertex farthest
\* from the vertex at pos (the first one when several are equally far)
RECURSIVE farthest_scan(_, _, _, _, _)
farthest_scan(cnt, pos, j, best_j, max_dist) ==
    IF j >= Len(cnt) THEN [j |-> best_j, dist |-> max_dist]
    ELSE LET dist == SqDist(Pt(cnt, pos + j), Pt(cnt, pos))
         IN IF dist > max_dist
              THEN farthest_scan(cnt, pos, j + 1, j, dist)
              ELSE farthest_scan(cnt, pos, j + 1, best_j, max_dist)

\* the init_iters = 3 iterations of step 1: [pos, start, dist]
RECURSIVE farthest_pair(_, _, _, _)
farthest_pair(cnt, i, pos, start) ==
    LET p == (pos + start) % Len(cnt)
        f == farthest_scan(cnt, p, 1, start, 0)
    IN IF i = 3 THEN [pos |-> p, start |-> f.j, dist |-> f.dist]
       ELSE farthest_pair(cnt, i + 1, p, f.j)

\* approxPolyDP, step 3: the vertex of the slice start..end farthest from
\* the line start-end (the first one when several are equally far)
RECURSIVE slice_scan(_, _, _, _, _, _)
slice_scan(cnt, start, end, pos, best, max_dist) ==
    IF pos % Len(cnt) = end THEN [at |-> best, dist |-> max_dist]
    ELSE LET dist == LineDist(Pt(cnt, pos), Pt(cnt, start), Pt(cnt, end))
         IN IF dist > max_dist
              THEN slice_scan(cnt, start, end, pos + 1, pos % Len(cnt), dist)
              ELSE slice_scan(cnt, start, end, pos + 1, best, max_dist)

\* the points step 3 writes for the slice start..end: its start point alone
\* when every vertex between is within eps of the line, else the points of
\* its two halves
RECURSIVE approx_slice(_, _, _, _)
approx_slice(cnt, eps, start, end) ==
    IF (start + 1) % Len(cnt) = end THEN << Pt(cnt, start) >>
    ELSE LET f == slice_scan(cnt, start, end, start + 1, start, 0)
             le_eps == SignSq(eps.d * f.dist, eps.n,
                              SqDist(Pt(cnt, end), Pt(cnt, start))) <= 0
         IN IF le_eps THEN << Pt(cnt, start) >>
            ELSE approx_slice(cnt, eps, start, f.at)
                    \o approx_slice(cnt, eps, f.at, end)

\* approxPolyDP, last stage: a written point is removed when it lies within
\* eps / sqrt(2) of the line through its neighbours, which is not axis-aligned
RECURSIVE approx_cleanup(_, _, _, _, _, _, _, _)
approx_cleanup(dst, eps, i, pos, wpos, start_pt, pt, new_count) ==
    LET count == Len(dst)
    IN IF ~(i < count /\ new_count > 2) THEN SubSeq(dst, 1, new_count)
       ELSE LET end_pt == Pt(dst, pos)
                dx == end_pt[1] - start_pt[1]
                dy == end_pt[2] - start_pt[2]
                dist == LineDist(pt, start_pt, end_pt)
                inner == (pt[1] - start_pt[1]) * (end_pt[1] - pt[1])
                           + (pt[2] - start_pt[2]) * (end_pt[2] - pt[2])
                remove == /\ dx # 0
                          /\ dy # 0
                          /\ inner >= 0
                          /\ SignSq(2 * eps.d * dist, eps.n,
                                    2 * (dx * dx + dy * dy)) <= 0
            IN IF remove
                 THEN approx_cleanup([dst EXCEPT ![wpos + 1] = end_pt], eps,
                                     i + 2, (pos + 2) % count,
                                     (wpos + 1) % count, end_pt,
                                     Pt(dst, pos + 1), new_count - 1)
                 ELSE approx_cleanup([dst EXCEPT ![wpos + 1] = pt], eps,
                                     i + 1, (pos + 1) % count,
                                     (wpos + 1) % count, pt, end_pt, new_count)

\* cv2.approxPolyDP(cnt, epsilon, True)
approxPolyDP(cnt, eps) ==
    LET count == Len(cnt)
        far == farthest_pair(cnt, 1, 0, 0)
        le_eps == SignSq(eps.n, eps.d, far.dist) >= 0
        first == far.pos
        second == (far.start + far.pos) % count
        written == IF le_eps THEN << Pt(cnt, far.pos) >>
                   ELSE approx_slice(cnt, eps, first, second)
                           \o approx_slice(cnt, eps, second, first)
        n == Len(written)
    IN IF n <= 2 THEN written
       ELSE approx_cleanup(written, eps, 0, 1, 0, written[n], written[1], n)

\* an approximation is kept from 2 points on
keep_polyline_two_points(approx) == Len(approx) >= 2

\* if len(approx) >= 3
keep_polyline(approx) == Len(approx) >= 3

\* the loop of detect_contours from contour i on: the polylines appended to
\* contour_segments, the contour each comes from, and the contours that
\* were given to approxPolyDP
RECURSIVE detect_contours_from(_, _)
detect_contours_from(contours, i) ==
    IF i > Len(contours) THEN NoContours
    ELSE LET cnt == contours[i]
             rest == detect_contours_from(contours, i + 1)
             approx == approxPolyDP(cnt, epsilon(cnt))
         IN IF skip_contour(cnt) THEN rest
            ELSE IF keep_polyline(approx)
              THEN [rest EXCEPT !.segments = <<approx>> \o @,
                                !.origin = <<i>> \o @,
                                !.simplified = @ \cup {i}]
            ELSE [rest EXCEPT !.simplified = @ \cup {i}]

detect_contours(contours) ==
    [detect_contours_from(contours, 1) EXCEPT !.done = TRUE]

(***************************************************************************)
(* SpecContours: detect_contours applied to the contours traced in a       *)
(* binary image.                                                           *)
(***************************************************************************)
MaxSide == 12   \* every rectangle up to MaxSide x MaxSide is a contour

\* the contour cv2.findContours traces around a rectangle: its corners,
\* from the top left one downwards
rectangle_contour(x, y, w, h) ==
    << <<x, y>>, <<x, y + h>>, <<x + w, y + h>>, <<x + w, y>> >>

\* long thin rectangles: walls drawn as lines
LineShapes ==
    { <<w, h>> : w \in {60, 99, 100, 101, 300, 400, 494, 495, 500, 1000},
                 h \in {1, 2, 5} }

ContourShapes == ((1..MaxSide) \X (1..MaxSide)) \cup LineShapes

Contours == { rectangle_contour(10, 20, s[1], s[2]) : s \in ContourShapes }

\* contours traced side by side in one image
PairedContours ==
    { rectangle_contour(3, 700, s[1], s[2]) :
        s \in { <<5, 5>>, <<5, 6>>, <<6, 6>>, <<29, 1>>, <<30, 1>>,
                <<300, 5>>, <<500, 5>> } }

ContourLists ==
    { << >> } \cup { <<c>> : c \in Contours }
        \cup { <<c, d>> : c \in Contours, d \in PairedContours }

ContoursInit ==
    /\ FlowIdle
    /\ ArtifactsIdle
    /\ ExtractorsIdle
    /\ EditIdle
    /\ rz_in = <<0, 0>>
    /\ rz_out = <<0, 0>>
    /\ rt_size = <<0, 0>>
    /\ rt_point = NoPoint
    /\ rt_fwd = NoPoint
    /\ rt_back = NoPoint
    /\ ct_in \in ContourLists
    /\ ct_out = NoContours

\* contour_segments = detect_contours(binary)
DetectContours ==
    /\ ~ct_out.done
    /\ ct_out' = detect_contours(ct_in)
    /\ UNCHANGED <<ct_in, rt_size, rt_point, rt_fwd, rt_back, flowVars,
                   resizeVars, artifactVars, extractorVars, editVars>>

SpecContours == ContoursInit /\ [][DetectContours]_vars

(***************************************************************************)
(* SpecExtractors: detect_wall_segments and detect_portal_segments run on  *)
(* the two artifacts in any order and interleaved, each in two steps: it   *)
(* reads the bytes of the artifact it was handed, then detects in them.    *)
(* create_uvtt_file follows once both have returned.  The attempts that    *)
(* end with an error leave no result (see Spec) and are left out here.     *)
(***************************************************************************)
DecodableImages(images) == { img \in images : img.ok }

ExtractorsInit ==
    /\ EditIdle
    /\ pc = "extract"
    /\ image_url = TestImageUrl
    /\ fetched_url = TestImageUrl
    /\ nested_count = 0
    /\ has_label = TRUE
    /\ source_image \in { [size |-> s, state |-> "valid"] :
                            s \in { <<512, 768>>, <<2048, 1536>> } }
    /\ pixels_per_grid = 70
    /\ original_size = source_image.size
    /\ resized_artifact = resized_dimensions(original_size[1], original_size[2])
    /\ resized_size = resized_artifact
    /\ wall_outline \in DecodableImages(WallOutlineImages)
    /\ portal_highlight \in DecodableImages(PortalHighlightImages)
    /\ wall_segments = << >>
    /\ portal_segments = << >>
    /\ uvtt = NoUvtt
    /\ overlay = NoOverlay
    /\ stored = {"original-image", "resized-image", "wall-outline",
                 "portal-highlight"}
    /\ run_count = 0
    /\ started = << "fetch_image", "resize_image", "outline_impassable_areas",
                    "highlight_portals" >>
    /\ finished = {"fetch_image", "resize_image", "outline_impassable_areas",
                   "highlight_portals"}
    /\ stage_error = NoError
    /\ error = NoError
    /\ updates = << >>
    /\ result = NoResult
    /\ rz_in = <<0, 0>>
    /\ rz_out = <<0, 0>>
    /\ ArtifactsIdle
    /\ GeometryIdle
    /\ ExtractorsIdle
    /\ EditIdle

\* detect_wall_segments: image_bytes = fetch_artifact_data(wall_outline_artifact)
FetchWallOutline ==
    /\ pc = "extract"
    /\ wall_image_bytes = NoImage
    /\ wall_image_bytes' = wall_detection_input(wall_outline, portal_highlight)
    /\ UNCHANGED <<portal_image_bytes, flowVars, resizeVars, artifactVars,
                   geometryVars, editVars>>

\* detect_wall_segments: the try block, from cv2.imdecode to the return
ExtractWalls ==
    /\ pc = "extract"
    /\ wall_image_bytes # NoImage
    /\ "detect_wall_segments" \notin finished
    /\ wall_segments' = contour_wall_segments(wall_image_bytes)
    /\ started' = Append(started, "detect_wall_segments")
    /\ finished' = finished \cup {"detect_wall_segments"}
    /\ UNCHANGED <<pc, image_url, fetched_url, nested_count, has_label,
                   source_image, pixels_per_grid, original_size,
                   resized_artifact, resized_size, wall_outline,
                   portal_highlight, portal_segments, uvtt, overlay, stored,
                   run_count, stage_error, error, updates, result,
                   resizeVars, artifactVars, geometryVars, extractorVars,
                   editVars>>

\* detect_portal_segments:
\* image_bytes = fetch_artifact_data(portal_outline_artifact)
FetchPortalHighlight ==
    /\ pc = "extract"
    /\ portal_image_bytes = NoImage
    /\ portal_image_bytes' =
           portal_detection_input(wall_outline, portal_highlight)
    /\ UNCHANGED <<wall_image_bytes, flowVars, resizeVars, artifactVars,
                   geometryVars, editVars>>

\* detect_portal_segments: the try block, from cv2.imdecode to the return
ExtractPortals ==
    /\ pc = "extract"
    /\ portal_image_bytes # NoImage
    /\ "detect_portal_segments" \notin finished
    /\ portal_segments' = hough_portal_segments(portal_image_bytes)
    /\ started' = Append(started, "detect_portal_segments")
    /\ finished' = finished \cup {"detect_portal_segments"}
    /\ UNCHANGED <<pc, image_url, fetched_url, nested_count, has_label,
                   source_image, pixels_per_grid, original_size,
                   resized_artifact, resized_size, wall_outline,
                   portal_highlight, wall_segments, uvtt, overlay, stored,
                   run_count, stage_error, error, updates, result,
                   resizeVars, artifactVars, geometryVars, extractorVars,
                   editVars>>

\* create_uvtt_file(wall_segments, portal_segments, ...), once both lists exist
AssembleUvtt ==
    /\ pc = "extract"
    /\ {"detect_wall_segments", "detect_portal_segments"} \subseteq finished
    /\ uvtt' = uvtt_data(wall_segments, portal_segments, original_size,
                         pixels_per_grid)
    /\ stored' = stored \cup {"uvtt-file"}
    /\ pc' = "extracted"
    /\ UNCHANGED <<image_url, fetched_url, nested_count, has_label,
                   source_image, pixels_per_grid, original_size,
                   resized_artifact, resized_size, wall_outline,
                   portal_highlight, wall_segments, portal_segments, overlay,
                   run_count, started, finished, stage_error, error, updates,
                   result, resizeVars, artifactVars, geometryVars,
                   extractorVars, editVars>>

ExtractorsNext ==
    \/ FetchWallOutline
    \/ ExtractWalls
    \/ FetchPortalHighlight
    \/ ExtractPortals
    \/ AssembleUvtt

SpecExtractors == ExtractorsInit /\ [][ExtractorsNext]_vars

(***************************************************************************)
(* SpecImageEdit: one call of outline_impassable_areas or of               *)
(* highlight_portals, statement by statement.  edit_call records the task, *)
(* its arguments, the statement it is at, whether its temporary file       *)
(* exists on disk, the size it asks the image-edit service for and the     *)
(* exception on its way out.                                               *)
(***************************************************************************)
EditTaskNames == {"outline_impassable_areas", "highlight_portals"}

\* the sizes of the images a call may be given: the buckets and another one
EditInputSizes == BucketSizes \cup { <<800, 600>> }

NoApiSize == <<0, 0>>

\* the chain of if / elif on image.size; "other" is what the else branch
\* does: raise in outline_impassable_areas, default in highlight_portals
api_size_for(size, other) == IF size \in BucketSizes THEN size ELSE other

EditInit ==
    /\ FlowIdle
    /\ ArtifactsIdle
    /\ GeometryIdle
    /\ ExtractorsIdle
    /\ rz_in = <<0, 0>>
    /\ rz_out = <<0, 0>>
    /\ edit_call \in
          [ name : EditTaskNames, mock : BOOLEAN, decodable : BOOLEAN,
            size : EditInputSizes, at : {"start"}, temp_file : {FALSE},
            created : {FALSE}, api_size : {NoApiSize}, requested : {NoApiSize},
            error : {NoError} ]

\* an exception raised by the statement at hand: outside the try block it
\* leaves the task, inside it reaches the except clause
EditRaise(e, inside_try) ==
    [edit_call EXCEPT !.error = e,
                      !.at = IF inside_try THEN "except" ELSE "raised"]

\* outline_impassable_areas, before its try block: fetch_artifact_data,
\* Image.open and the choice of api_size
OutlineReadInput ==
    /\ edit_call.at = "start"
    /\ edit_call.name = "outline_impassable_areas"
    /\ edit_call' =
          IF ~edit_call.decodable
            THEN EditRaise(Exc("UnidentifiedImageError", "decode",
                               edit_call.name), FALSE)
          ELSE IF edit_call.size \notin BucketSizes
            THEN EditRaise(Exc("ValueError", "size", edit_call.name), FALSE)
          ELSE [edit_call EXCEPT
                   !.api_size = api_size_for(edit_call.size, NoApiSize),
                   !.at = "create_temp"]
    /\ UNCHANGED <<flowVars, resizeVars, artifactVars, geometryVars,
                   extractorVars>>

\* with tempfile.NamedTemporaryFile(suffix=".png", delete=False) as temp:
\*     temp.write(image_bytes)
\* the file exists from the first line on; the write may fail
CreateTempFile ==
    /\ \/ edit_call.at = "create_temp"
       \/ edit_call.at = "start" /\ edit_call.name = "highlight_portals"
    /\ \E written \in BOOLEAN :
         LET made == [edit_call EXCEPT !.temp_file = TRUE, !.created = TRUE]
         IN edit_call' =
              IF ~written
                THEN [made EXCEPT !.error = Exc("OSError", "write", made.name),
                                  !.at = "except"]
              ELSE [made EXCEPT
                      !.at = IF made.name = "highlight_portals"
                               THEN "open_input" ELSE "edit"]
    /\ UNCHANGED <<flowVars, resizeVars, artifactVars, geometryVars,
                   extractorVars>>

\* highlight_portals, in its outer try block after the temporary file was
\* written: Image.open and the choice of api_size, 1024x1024 by default
HighlightOpenInput ==
    /\ edit_call.at = "open_input"
    /\ edit_call' =
          IF ~edit_call.decodable
            THEN EditRaise(Exc("UnidentifiedImageError", "decode",
                               edit_call.name), TRUE)
          ELSE [edit_call EXCEPT
                   !.api_size = api_size_for(edit_call.size, <<1024, 1024>>),
                   !.at = "edit"]
    /\ UNCHANGED <<flowVars, resizeVars, artifactVars, geometryVars,
                   extractorVars>>

\* finally: if os.path.exists(temp_file_path): os.unlink(temp_file_path)
unlink_temp_file(c) == [c EXCEPT !.temp_file = FALSE]

\* the inner try block up to the result image: client.images.edit(...,
\* size=api_size) on the temporary file, or with mock the fetch of the
\* fixture image; a failure passes the finally clause on its way out
EditImage ==
    /\ edit_call.at = "edit"
    /\ \E ok \in BOOLEAN :
         LET asked == IF edit_call.mock THEN edit_call
                      ELSE [edit_call EXCEPT !.requested = edit_call.api_size]
         IN edit_call' =
              IF ok THEN [asked EXCEPT !.at = "store"]
              ELSE [unlink_temp_file(asked) EXCEPT
                      !.error = Exc(IF asked.mock THEN "HTTPError"
                                    ELSE "Exception",
                                    IF asked.mock THEN "fetch" ELSE "edit",
                                    asked.name),
                      !.at = "except"]
    /\ UNCHANGED <<flowVars, resizeVars, artifactVars, geometryVars,
                   extractorVars>>

\* create_image_artifact(content=result_image_bytes, key=...) and the
\* return, both inside the inner try block: the finally clause runs
StoreEditResult ==
    /\ edit_call.at = "store"
    /\ \E ok \in BOOLEAN :
         edit_call' =
           IF ok THEN [unlink_temp_file(edit_call) EXCEPT !.at = "returned"]
           ELSE [unlink_temp_file(edit_call) EXCEPT
                   !.error = Exc("S3Error", "store", edit_call.name),
                   !.at = "except"]
    /\ UNCHANGED <<flowVars, resizeVars, artifactVars, geometryVars,
                   extractorVars>>

\* except Exception as e: raise RuntimeError(f"OpenAI image edit failed: {e}")
WrapEditError ==
    /\ edit_call.at = "except"
    /\ edit_call' =
          [edit_call EXCEPT
             !.error = Exc("RuntimeError", edit_call.error.cause,
                           edit_call.name),
             !.at = "raised"]
    /\ UNCHANGED <<flowVars, resizeVars, artifactVars, geometryVars,
                   extractorVars>>

EditNext ==
    \/ OutlineReadInput
    \/ CreateTempFile
    \/ HighlightOpenInput
    \/ EditImage
    \/ StoreEditResult
    \/ WrapEditError

SpecImageEdit == EditInit /\ [][EditNext]_vars

(***************************************************************************)
(* Properties.                                                             *)
(***************************************************************************)
Last(s) == s[Len(s)]

\* the segments of the run rescaled from the resized image to the original
\* one, in the form the UVTT document gives them
RescaledLineOfSight ==
    LET sx == scale_x(original_size, resized_size)
        sy == scale_y(original_size, resized_size)
    IN [i \in DOMAIN wall_segments |->
          [j \in DOMAIN wall_segments[i] |->
             uvtt_point(scaled_point(wall_segments[i][j], sx, sy))]]

RescaledPortals ==
    LET sx == scale_x(original_size, resized_size)
        sy == scale_y(original_size, resized_size)
    IN [i \in DOMAIN portal_segments |->
          uvtt_portal(<< scaled_point(portal_segments[i][1], sx, sy),
                         scaled_point(portal_segments[i][2], sx, sy) >>)]

\* C1: every line_of_sight point and every portal bounds / position of the
\* UVTT document is the detected coordinate rescaled by
\* (original_width / resized_width, original_height / resized_height).
C1_UvttInOriginalSpace ==
    uvtt.exists =>
        /\ uvtt.line_of_sight = RescaledLineOfSight
        /\ \A i \in DOMAIN uvtt.portals :
              /\ uvtt.portals[i].bounds = RescaledPortals[i].bounds
              /\ uvtt.portals[i].position = RescaledPortals[i].position

\* the order of the stages as the flow is documented to run them
StageOrder ==
    << "fetch_image", "resize_image", "outline_impassable_areas",
       "highlight_portals", "detect_wall_segments", "detect_portal_segments",
       "create_uvtt_file", "draw_features_on_image" >>

StagedInv ==
    /\ Len(started) <= Len(StageOrder)
    /\ \A i \in DOMAIN started : started[i] = StageOrder[i]
    /\ \A i \in DOMAIN started : i > 1 => started[i - 1] \in finished
    /\ stage_error # NoError =>
          /\ pc \in {"except", "raised"}
          /\ error # NoError
          /\ result = NoResult

\* C2: the stages run in the order fetch, resize, wall outline, portal
\* highlight, wall detection, portal detection, UVTT assembly, overlay; a
\* stage starts only after its predecessor returned; once a stage has failed
\* no stage starts or finishes any more and the run ends by raising.
C2_StrictlyStaged ==
    /\ []StagedInv
    /\ [][stage_error # NoError =>
            /\ started' = started
            /\ finished' = finished
            /\ pc' = "raised"]_vars

\* a stage failed with its retries exhausted, after four stages had returned
C2_Witness ==
    /\ pc = "raised"
    /\ stage_error.stage = "detect_wall_segments"
    /\ run_count = 1 + task_retries["detect_wall_segments"]
    /\ Len(started) = 5
    /\ Cardinality(finished) = 4

\* C3: when a stage failed, the last progress update of the run has status
\* "failed" and carries the stage's error, the exception that leaves the
\* flow is the stage's error, and no "completed" update was sent.
C3_FailureReported ==
    (pc = "raised" /\ stage_error # NoError) =>
        /\ Len(updates) > 0
        /\ Last(updates).status = "failed"
        /\ Last(updates).message = stage_error
        /\ error = stage_error
        /\ \A i \in DOMAIN updates : updates[i].status # "completed"

\* C4: a run that ended in failure because one of its stages failed has
\* stored no UVTT document and returned none.
C4_UvttAllOrNothing ==
    (pc = "raised" /\ stage_error # NoError) =>
        ("uvtt-file" \notin stored /\ result = NoResult)

\* C5: a failure to deliver a progress update never raises: the exception
\* that ends a run is never one of send_progress_update.
C5_ReportingBestEffort ==
    pc \in {"except", "raised"} => error.cause # "report"

\* C6: the artifact a helper call returns references the content that the
\* same call uploaded.
C6_ArtifactOfOwnUpload ==
    \A r \in DOMAIN call :
        call[r].pc = "done" => call[r].returned = call[r].content_url

DecodingStages == {"resize_image", "detect_wall_segments", "detect_portal_segments"}

\* C7: a stage that failed because its input does not decode as an image
\* was attempted exactly once.
C7_DecodeNotRetried ==
    (stage_error.cause = "decode" /\ stage_error.stage \in DecodingStages)
        => run_count = 1

\* C8: the image resize_image produces is 1024x1024, 1536x1024 or 1024x1536.
C8_ResizedToBucket ==
    rz_out # <<0, 0>> => rz_out \in { <<1024, 1024>>, <<1536, 1024>>, <<1024, 1536>> }

\* resize_image was given an image that has none of the three sizes
C8_Witness ==
    /\ rz_in = <<7, 3>>
    /\ rz_out = <<1536, 1024>>

\* |bw / bh - w / h| <= |cw / ch - w / h|, for bucket sizes b and c; their
\* sides are multiples of 512, which is divided out to keep the products small
AspectNoFarther(b, c, w, h) ==
    LET bw == b[1] \div 512
        bh == b[2] \div 512
        cw == c[1] \div 512
        ch == c[2] \div 512
    IN Abs(bw * h - w * bh) * ch <= Abs(cw * h - w * ch) * bh

\* C9: no bucket is strictly closer in aspect ratio (its width / height) to
\* the source than the bucket resize_image chose.
C9_BucketMinimizesAspect ==
    rz_out # <<0, 0>> =>
        \A b \in { <<1024, 1024>>, <<1536, 1024>>, <<1024, 1536>> } :
            AspectNoFarther(rz_out, b, rz_in[1], rz_in[2])

\* C10 as stated: a 512x768 image is resized to 1024x1536 and the scale
\* factors computed from the two sizes are (2.0, 2.0).
C10_ScaleIsTwo ==
    (overlay.exists /\ original_size = <<512, 768>>) =>
        /\ resized_size = <<1024, 1536>>
        /\ RatioEq(overlay.scale_x, Ratio(2, 1))
        /\ RatioEq(overlay.scale_y, Ratio(2, 1))

\* C10 amended: a 512x768 image is resized to 1024x1536 and the scale
\* factors computed from the two sizes (original / resized) are (0.5, 0.5).
C10_ScaleIsHalf ==
    (overlay.exists /\ original_size = <<512, 768>>) =>
        /\ resized_size = <<1024, 1536>>
        /\ RatioEq(overlay.scale_x, Ratio(1, 2))
        /\ RatioEq(overlay.scale_y, Ratio(1, 2))

\* the overlay stage ran on a 512x768 image
C10_Witness ==
    /\ overlay.exists
    /\ original_size = <<512, 768>>
    /\ source_image.size = <<512, 768>>
    /\ "resize_image" \in finished

\* the two sizes of the round trip, and the distance it moved the point
RoundTripBucket == resized_dimensions(rt_size[1], rt_size[2])
RoundTripWithin(k) ==
    /\ Abs(rt_back[1] - rt_point[1]) <= k
    /\ Abs(rt_back[2] - rt_point[2]) <= k

\* C11 as stated: for every original size and every point of the original
\* image, rescaling original -> resized -> original with truncation at each
\* step returns a point within 1 pixel of the starting point on each axis.
C11_RoundTripWithinOne ==
    rt_back # NoPoint => RoundTripWithin(1)

\* C11 amended: the same, for the original images that are not larger than
\* their bucket on either axis.
C11_RoundTripWithinOneUpscaled ==
    (/\ rt_back # NoPoint
     /\ rt_size[1] <= RoundTripBucket[1]
     /\ rt_size[2] <= RoundTripBucket[2]) => RoundTripWithin(1)

\* a point of an 836x1003 image that the round trip moves by one pixel
C11_Witness ==
    /\ rt_size = <<836, 1003>>
    /\ rt_point = <<1, 1>>
    /\ rt_fwd = <<1, 1>>
    /\ rt_back = <<0, 0>>

\* C12: the UVTT document has map_size = original size / pixels_per_grid
\* with nothing rounded before the division, so map_size.x * pixels_per_grid
\* is the original width and map_size.y * pixels_per_grid the original
\* height, and resolution.pixels_per_grid is the value the caller supplied.
C12_MapSizeInGridUnits ==
    uvtt.exists =>
        LET res == uvtt.resolution
        IN /\ res.map_size.x.n * pixels_per_grid
                 = source_image.size[1] * res.map_size.x.d
           /\ res.map_size.y.n * pixels_per_grid
                 = source_image.size[2] * res.map_size.y.d
           /\ res.pixels_per_grid = pixels_per_grid

\* a document for an image whose width is no multiple of pixels_per_grid
C12_Witness ==
    /\ uvtt.exists
    /\ source_image.size = <<836, 1003>>
    /\ pixels_per_grid = 70
    /\ "uvtt-file" \in stored

\* the angle 0.0, and "angle a is the angle of the vector (dx, dy)": a points
\* along the vector, in its direction
AngleZero == [dx |-> 1, dy |-> 0]
IsAngleOf(a, dy, dx) ==
    IF dx = 0 /\ dy = 0 THEN a = AngleZero
    ELSE /\ a.dx * dy = a.dy * dx
         /\ a.dx * dx + a.dy * dy > 0

\* C13: every portal of the UVTT document has the arithmetic midpoint of its
\* segment as position, not rounded to an integer, and atan2(end.y - start.y,
\* end.x - start.x) as rotation; the segment (100,100)-(140,100) gives the
\* position (120.0, 100.0) and the rotation 0.0.
C13_PortalMidpointAndRotation ==
    uvtt.exists =>
        /\ Len(uvtt.portals) = Len(portal_segments)
        /\ \A i \in DOMAIN portal_segments :
              LET start == portal_segments[i][1]
                  end   == portal_segments[i][2]
                  p     == uvtt.portals[i]
              IN /\ 2 * p.position.x.n = (start[1] + end[1]) * p.position.x.d
                 /\ 2 * p.position.y.n = (start[2] + end[2]) * p.position.y.d
                 /\ IsAngleOf(p.rotation, end[2] - start[2], end[1] - start[1])
                 /\ (start = <<100, 100>> /\ end = <<140, 100>>) =>
                       /\ RatioEq(p.position.x, Ratio(120, 1))
                       /\ RatioEq(p.position.y, Ratio(100, 1))
                       /\ p.rotation = AngleZero

\* a document with the portal (100,100)-(140,100) and a slanted portal whose
\* x coordinates have an odd sum
C13_Witness ==
    /\ uvtt.exists
    /\ Len(portal_segments) = 2
    /\ portal_segments[1] = << <<100, 100>>, <<140, 100>> >>
    /\ (portal_segments[2][1][1] + portal_segments[2][2][1]) % 2 = 1
    /\ uvtt.portals[2].position.x.d = 2

\* the portal-highlight image decodes and shows no line
NoPortalLines == portal_highlight.ok /\ portal_highlight.features = << >>

\* C14: when the portal-highlight image yields no line, detect_portal_segments
\* returns the empty list and does not raise for that reason, UVTT assembly
\* and the overlay do not fail for that reason either, the UVTT document has
\* "portals": [] and a run that returns reports 0 portal segments.
C14_NoPortalsIsNoError ==
    NoPortalLines =>
        /\ stage_error.stage = "detect_portal_segments"
              => stage_error.cause = "fetch"
        /\ "detect_portal_segments" \in finished => portal_segments = << >>
        /\ stage_error.stage \in {"create_uvtt_file", "draw_features_on_image"}
              => stage_error.cause = "store"
        /\ uvtt.exists => uvtt.portals = << >>
        /\ pc = "returned" =>
              /\ result.status = "completed"
              /\ result.portal_segments_count = 0
              /\ result.uvtt_file.portals = << >>

\* a run that found walls and no portal and returned
C14_Witness ==
    /\ NoPortalLines
    /\ pc = "returned"
    /\ Len(wall_segments) > 0
    /\ overlay.exists
    /\ uvtt.portals = << >>

\* width, height and area of a rectangular contour, from its corners
RectWidth(cnt) == Abs(cnt[3][1] - cnt[1][1])
RectHeight(cnt) == Abs(cnt[3][2] - cnt[1][2])
RectArea(cnt) == RectWidth(cnt) * RectHeight(cnt)

\* the polylines of the output that come from contour i
PolylinesOf(i) == { k \in DOMAIN ct_out.origin : ct_out.origin[k] = i }

\* C15: no contour whose area is below 30 contributes a polyline, every
\* contour whose area is at least 30 (30 itself included) is given to the
\* simplification, and each contour is treated as it is when it is alone.
C15_AreaFilter ==
    ct_out.done =>
        /\ \A i \in DOMAIN ct_in :
              /\ RectArea(ct_in[i]) < 30 =>
                    (PolylinesOf(i) = {} /\ i \notin ct_out.simplified)
              /\ RectArea(ct_in[i]) >= 30 => i \in ct_out.simplified
        /\ ct_out.segments =
              IF Len(ct_in) = 2
                THEN detect_contours(<<ct_in[1]>>).segments
                        \o detect_contours(<<ct_in[2]>>).segments
                ELSE ct_out.segments

\* two contours, one of area 30 and one of area 29, were filtered
C15_Witness ==
    /\ ct_out.done
    /\ Len(ct_in) = 2
    /\ RectArea(ct_in[1]) = 30
    /\ RectArea(ct_in[2]) = 29
    /\ ct_out.simplified = {1}
    /\ ct_out.origin = <<1>>

\* C16: every axis-aligned rectangular contour with 4 vertices and an area
\* above 30 gives exactly one polyline, with exactly 4 points, whatever its
\* width and height.
C16_RectangleKeepsFourPoints ==
    ct_out.done =>
        \A i \in DOMAIN ct_in :
            RectArea(ct_in[i]) > 30 =>
                /\ Cardinality(PolylinesOf(i)) = 1
                /\ \A k \in PolylinesOf(i) : Len(ct_out.segments[k]) = 4

\* C17: the flow fetches the image at the image_url its caller supplied:
\* the URL given to fetch_image is the argument, whatever the argument is.
C17_FetchesCallersImage ==
    fetched_url # "" => fetched_url = image_url

\* the number of attempts the claim grants each stage
MaxAttempts ==
    [ fetch_image              |-> 3,
      resize_image             |-> 3,
      outline_impassable_areas |-> 3,
      highlight_portals        |-> 3,
      detect_wall_segments     |-> 3,
      detect_portal_segments   |-> 3,
      create_uvtt_file         |-> 3,
      draw_features_on_image   |-> 2 ]

\* a task about to be attempted has an attempt left, a task that failed made
\* all its attempts, and so for the fetch_image run nested in a task
AttemptsBounded ==
    /\ pc \in DOMAIN MaxAttempts => run_count < MaxAttempts[pc]
    /\ stage_error.stage \in DOMAIN MaxAttempts
          => run_count = MaxAttempts[stage_error.stage]
    /\ nested_count < MaxAttempts["fetch_image"]

Ended == pc \in {"returned", "raised"}

\* C18: every task is attempted at most 1 + its retries times (3 times,
\* overlay drawing 2 times), and every run in which each attempt terminates
\* ends, completed or failed.
C18_BoundedRetries == []AttemptsBounded /\ <>Ended

\* the overlay stage failed on its second and last attempt and the run
\* ended as failed
C18_Witness ==
    /\ pc = "raised"
    /\ stage_error.stage = "draw_features_on_image"
    /\ run_count = 2

ImageEditTasks == {"outline_impassable_areas", "highlight_portals"}

\* C19: the RuntimeError "OpenAI image edit failed" of outline_impassable_areas
\* and highlight_portals is raised only when the image-edit call itself
\* failed, never for the failure of a sibling concern (fetching an image,
\* decoding the input, storing the result artifact).
C19_EditErrorMeansEditFailed ==
    (stage_error.stage \in ImageEditTasks /\ stage_error.type = "RuntimeError")
        => stage_error.cause = "edit"

\* what the two extractions give whatever the order of their steps: the
\* contours of the wall-outline image, the lines of the portal-highlight
\* image, and the document assembled from the two
ExtractionResults ==
    /\ "detect_wall_segments" \in finished
          => wall_segments = wall_outline.features
    /\ "detect_portal_segments" \in finished
          => portal_segments = portal_highlight.features
    /\ "detect_wall_segments" \notin finished => wall_segments = << >>
    /\ "detect_portal_segments" \notin finished => portal_segments = << >>
    /\ wall_image_bytes \in {NoImage, wall_outline}
    /\ portal_image_bytes \in {NoImage, portal_highlight}
    /\ uvtt.exists =>
          uvtt = uvtt_data(wall_outline.features, portal_highlight.features,
                           original_size, pixels_per_grid)

\* a step of one extraction changes neither artifact nor anything of the
\* other extraction
ExtractionsApart ==
    /\ wall_outline' = wall_outline
    /\ portal_highlight' = portal_highlight
    /\ (wall_image_bytes' # wall_image_bytes \/ wall_segments' # wall_segments)
          => (portal_image_bytes' = portal_image_bytes
                /\ portal_segments' = portal_segments)
    /\ (portal_image_bytes' # portal_image_bytes
            \/ portal_segments' # portal_segments)
          => (wall_image_bytes' = wall_image_bytes
                /\ wall_segments' = wall_segments)

\* C20: detect_wall_segments reads only the wall-outline artifact and
\* detect_portal_segments only the portal-highlight artifact, neither changes
\* the other's input or output, and in whatever order their steps run the
\* wall list, the portal list and the UVTT document are the same.
C20_ExtractorsIndependent == []ExtractionResults /\ [][ExtractionsApart]_vars

\* the portals were extracted before the walls and the document was built
C20_Witness ==
    /\ pc = "extracted"
    /\ started[5] = "detect_portal_segments"
    /\ started[6] = "detect_wall_segments"
    /\ Len(wall_segments) = 2
    /\ Len(portal_segments) = 2
    /\ uvtt.exists

\* q is the product p * to / from truncated toward zero, for p >= 0: it does
\* not exceed the product and is less than 1 below it
IsTruncatedProduct(q, p, to, from) ==
    /\ q * from <= p * to
    /\ p * to < (q + 1) * from

\* a detected point and the point drawn for it: x is rescaled with the
\* widths alone, y with the heights alone
IsRescaledPoint(q, p) ==
    /\ IsTruncatedProduct(q[1], p[1], original_size[1], resized_size[1])
    /\ IsTruncatedProduct(q[2], p[2], original_size[2], resized_size[2])

\* C21: every point the overlay stage draws is the detected point rescaled
\* per axis by scaleX = original width / resized width and scaleY = original
\* height / resized height, each product truncated toward zero, not rounded.
C21_RescaleTruncates ==
    overlay.exists =>
        /\ RatioEq(overlay.scale_x, Ratio(original_size[1], resized_size[1]))
        /\ RatioEq(overlay.scale_y, Ratio(original_size[2], resized_size[2]))
        /\ \A i \in DOMAIN wall_segments :
              \A j \in DOMAIN wall_segments[i] :
                 IsRescaledPoint(overlay.walls[i][j], wall_segments[i][j])
        /\ \A i \in DOMAIN portal_segments :
              /\ IsRescaledPoint(overlay.portals[i][1], portal_segments[i][1])
              /\ IsRescaledPoint(overlay.portals[i][2], portal_segments[i][2])

\* 1013 * 0.5 = 506.5 was drawn at 506
C21_Witness ==
    /\ overlay.exists
    /\ original_size = <<512, 768>>
    /\ Len(wall_segments) > 0
    /\ wall_segments[1][2][1] = 1013
    /\ overlay.walls[1][2][1] = 506

\* the angle of the vector (dx * sx, dy * sy), sx and sy in lowest terms
ScaledAngle(dy, dx, sx, sy) ==
    LET gx == GCD(sx.n, sx.d)
        gy == GCD(sy.n, sy.d)
    IN arctan2(dy * (sy.n \div gy) * (sx.d \div gx),
               dx * (sx.n \div gx) * (sy.d \div gy))

\* C22: the overlay draws the truncated rescaled endpoints, while every
\* portal of the UVTT document has the midpoint and the angle of the exactly
\* rescaled segment (endpoints times original / resized, not truncated).
C22_UvttFromUnroundedRescaled ==
    (uvtt.exists /\ overlay.exists) =>
        LET sx == Ratio(original_size[1], resized_size[1])
            sy == Ratio(original_size[2], resized_size[2])
        IN \A i \in DOMAIN portal_segments :
              LET start == portal_segments[i][1]
                  end   == portal_segments[i][2]
                  p     == uvtt.portals[i]
              IN /\ IsRescaledPoint(overlay.portals[i][1], start)
                 /\ IsRescaledPoint(overlay.portals[i][2], end)
                 /\ 2 * p.position.x.n * sx.d
                       = (start[1] + end[1]) * sx.n * p.position.x.d
                 /\ 2 * p.position.y.n * sy.d
                       = (start[2] + end[2]) * sy.n * p.position.y.d
                 /\ p.rotation
                       = ScaledAngle(end[2] - start[2], end[1] - start[1], sx, sy)

\* C23: line_of_sight has one entry per wall polyline handed to
\* create_uvtt_file, in the order of the input, and each entry lists that
\* polyline's points in their order with x and y unchanged: nothing scaled,
\* divided by pixels_per_grid, reordered, dropped or added.
C23_LineOfSightVerbatim ==
    uvtt.exists =>
        /\ Len(uvtt.line_of_sight) = Len(wall_segments)
        /\ \A i \in DOMAIN wall_segments :
              /\ Len(uvtt.line_of_sight[i]) = Len(wall_segments[i])
              /\ \A j \in DOMAIN wall_segments[i] :
                    /\ uvtt.line_of_sight[i][j].x = wall_segments[i][j][1]
                    /\ uvtt.line_of_sight[i][j].y = wall_segments[i][j][2]

\* a document of two polylines of different lengths, for an image that is
\* not of the size of its bucket and a grid that is not 1 pixel wide
C23_Witness ==
    /\ uvtt.exists
    /\ Len(wall_segments) = 2
    /\ Len(uvtt.line_of_sight[1]) = 4
    /\ Len(uvtt.line_of_sight[2]) = 3
    /\ original_size # resized_size
    /\ pixels_per_grid = 70

\* C24: the UVTT document has one portal per segment handed to
\* create_uvtt_file, in the order of the input, with bounds = [start, end],
\* closed = false and freestanding = false; equal and collinear segments
\* each have their own portal.
C24_OnePortalPerSegment ==
    uvtt.exists =>
        /\ Len(uvtt.portals) = Len(portal_segments)
        /\ \A i \in DOMAIN portal_segments :
              LET p == uvtt.portals[i]
              IN /\ Len(p.bounds) = 2
                 /\ p.bounds[1].x = portal_segments[i][1][1]
                 /\ p.bounds[1].y = portal_segments[i][1][2]
                 /\ p.bounds[2].x = portal_segments[i][2][1]
                 /\ p.bounds[2].y = portal_segments[i][2][2]
                 /\ p.closed = FALSE
                 /\ p.freestanding = FALSE

\* a document for three segments: the same segment twice, then a segment
\* that continues it on the same line
C24_Witness ==
    /\ uvtt.exists
    /\ Len(portal_segments) = 3
    /\ portal_segments[1] = portal_segments[2]
    /\ portal_segments[3][1] = portal_segments[2][2]
    /\ Len(uvtt.portals) = 3
    /\ uvtt.portals[1] = uvtt.portals[2]

\* |aspect of the bucket - w / h|, times 1000 * h, for the buckets in the
\* order square, landscape, portrait
BucketOrder == << <<1024, 1024>>, <<1536, 1024>>, <<1024, 1536>> >>
BucketAspect == << 1000, 1500, 667 >>
AspectDifference(k, w, h) == Abs(BucketAspect[k] * h - 1000 * w)

C26_PolylinesHaveThreePoints ==
    ct_out.done =>
        /\ \A k \in DOMAIN ct_out.segments :
              /\ Len(ct_out.segments[k]) >= 3
              /\ \A j \in DOMAIN ct_out.segments[k] :
                    /\ Len(ct_out.segments[k][j]) = 2
                    /\ ct_out.segments[k][j][1] \in Int
                    /\ ct_out.segments[k][j][2] \in Int
        /\ \A i \in ct_out.simplified :
              Len(approxPolyDP(ct_in[i], epsilon(ct_in[i]))) < 3
                  => PolylinesOf(i) = {}

\* a 100x1 contour was simplified to 2 vertices and dropped, the contour
\* beside it was kept
C26_Witness ==
    /\ ct_out.done
    /\ Len(ct_in) = 2
    /\ RectWidth(ct_in[1]) = 100
    /\ RectHeight(ct_in[1]) = 1
    /\ Len(approxPolyDP(ct_in[1], epsilon(ct_in[1]))) = 2
    /\ ct_out.simplified = {1, 2}
    /\ ct_out.origin = <<2>>

\* C27: the overlay stage draws the wall polyline at index i (from 0) in the
\* colour i mod 9 of its palette of 9 colours, so that polylines i and i + 9
\* have the same colour; a polyline of 3 or more points is drawn closed, with
\* an edge from its last point back to its first; every portal segment is
\* drawn as a single line in one colour that does not depend on its index.
C27_OverlayColoursAndClosing ==
    overlay.exists =>
        LET sx == overlay.scale_x
            sy == overlay.scale_y
        IN /\ Len(wall_colors) = 9
           /\ Cardinality({wall_colors[k] : k \in 1..9}) = 9
           /\ \A i \in DOMAIN wall_segments :
                 LET lines == overlay.wall_lines[i]
                     points == wall_segments[i]
                     n == Len(points)
                 IN /\ \A k \in DOMAIN lines :
                          lines[k].fill = wall_colors[((i - 1) % 9) + 1]
                    /\ (i + 9) \in DOMAIN wall_segments =>
                          overlay.wall_lines[i + 9][1].fill = lines[1].fill
                    /\ n >= 3 =>
                          /\ Len(lines) = n
                          /\ \A k \in 1..(n - 1) :
                                /\ lines[k].start = scaled_point(points[k], sx, sy)
                                /\ lines[k].end = scaled_point(points[k + 1], sx, sy)
                          /\ lines[n].start = scaled_point(points[n], sx, sy)
                          /\ lines[n].end = scaled_point(points[1], sx, sy)
           /\ Len(overlay.portal_lines) = Len(portal_segments)
           /\ \A i \in DOMAIN portal_segments :
                 /\ overlay.portal_lines[i].fill = <<0, 0, 255>>
                 /\ overlay.portal_lines[i].start
                       = scaled_point(portal_segments[i][1], sx, sy)
                 /\ overlay.portal_lines[i].end
                       = scaled_point(portal_segments[i][2], sx, sy)

\* an overlay of 10 polylines, the first and the tenth in the same colour,
\* and of several portals
C27_Witness ==
    /\ overlay.exists
    /\ Len(wall_segments) = 10
    /\ overlay.wall_lines[10][3].fill = overlay.wall_lines[1][3].fill
    /\ overlay.wall_lines[9][3].fill # overlay.wall_lines[1][3].fill
    /\ Len(overlay.wall_lines[10]) = 3
    /\ Len(overlay.portal_lines) = 3

\* the progress values the body reports, in the order of its stages
ProgressValues == << 0, 5, 10, 15, 20, 30, 45, 50, 60, 70, 80, 85, 100 >>

\* the updates sent while the stages succeed: the k-th has the k-th value
ProgressIncreasing ==
    \A k \in DOMAIN updates :
        updates[k].status # "failed" =>
            /\ k <= Len(ProgressValues)
            /\ updates[k].progress = ProgressValues[k]
            /\ \A l \in 1..(k - 1) : updates[l].progress < updates[k].progress

\* 100 / "completed" is sent only when both output stages have succeeded
CompletedAfterOutputs ==
    \A k \in DOMAIN updates :
        (updates[k].status = "completed" \/ updates[k].progress = 100) =>
            /\ updates[k].status = "completed"
            /\ updates[k].progress = 100
            /\ "create_uvtt_file" \in finished
            /\ "draw_features_on_image" \in finished
            /\ uvtt.exists
            /\ overlay.exists

TerminalUpdates ==
    { k \in DOMAIN updates : updates[k].status \in {"completed", "failed"} }

OneTerminalUpdate == Cardinality(TerminalUpdates) <= 1

\* C28: the progress values sent while stages succeed are strictly
\* increasing (0, 5, 10, 15, 20, 30, 45, 50, 60, 70, 80, 85, 100); 100 with
\* status "completed" is sent only after the UVTT stage and the overlay stage
\* have succeeded; a run sends at most one terminal update, "completed" or
\* "failed", never both.
C28_ProgressMonotoneOneTerminal ==
    /\ ProgressIncreasing
    /\ CompletedAfterOutputs
    /\ OneTerminalUpdate

\* C29: when a call of outline_impassable_areas or highlight_portals has
\* returned or raised, the temporary file it created no longer exists,
\* whichever statement after the creation of the file ended the call.
C29_TempFileRemoved ==
    (edit_call.at \in {"returned", "raised"} /\ edit_call.created)
        => ~edit_call.temp_file

\* the three sizes the image-edit service supports
SupportedEditSizes == { <<1024, 1024>>, <<1536, 1024>>, <<1024, 1536>> }

\* has the run started the stage
Started(task) == \E k \in DOMAIN started : started[k] = task

====
